---- MODULE Spec2Model ----
(***************************************************************************)
(* Pipeline coordination core of blackboxaudio-sap.                        *)
(*                                                                         *)
(*   SpecWorker   : StreamWorker (libs/sap_common/valkey_streams.py), the  *)
(*                  consumer-group runtime every stage embeds: group       *)
(*                  bootstrap, recovery pass, live loop, retry counter,    *)
(*                  dead-letter escalation, shutdown, process crash.       *)
(*   SpecFaulty   : SpecWorker with calls to the log service that raise.    *)
(*   SpecCoordinator : one AlignerWorker (services/aligner) consuming      *)
(*                  sap:align:pending: accumulator writes, readiness       *)
(*                  check, _build_and_store_frames.                        *)
(*   SpecCoordinators : two AlignerWorker instances of the consumer group  *)
(*                  align-workers, their awaits interleaved.               *)
(*   SpecPipeline : a session from upload to completion: upload route,     *)
(*                  PreprocessWorker, the analysis workers, one aligner,   *)
(*                  the TTS route and worker, dead-letter escalation of a  *)
(*                  stage; the statuses they publish and record.           *)
(*   SpecRelay    : WebSocketManager (services/audio_gateway): the         *)
(*                  registry of connections, the relay task reading the    *)
(*                  results, status and tts-complete streams, broadcast(), *)
(*                  start() and stop().                                    *)
(*   SpecFusion   : calls of build_perception_frames (aligner/fusion.py)   *)
(*                  on arguments drawn from bounded sets.                  *)
(*                                                                         *)
(* The log service is Valkey.  Its stream commands are modelled by what    *)
(* they do: XREADGROUP ">" hands out entries after the group's             *)
(* last-delivered id and records them in the pending-entries list (PEL)    *)
(* under the reading consumer's name; XREADGROUP "0" returns the PEL       *)
(* entries of the reading consumer name only; XACK removes an id from the  *)
(* PEL.                                                                    *)
(***************************************************************************)
EXTENDS Integers, Sequences, FiniteSets, TLC

(***************************************************************************)
(* Bounds of the model.                                                    *)
(***************************************************************************)
MaxMsgs == 2        \* messages appended to the worker's stream
MaxStarts == 3      \* process starts (first start and restarts) in a run
MaxAlign == 3       \* messages appended to sap:align:pending
MaxUploads == 2     \* uploads accepted for the sessions
MaxTts == 1         \* TTS requests queued
MaxFaults == 2      \* calls to the log service that raise in a run
MaxRelayMsgs == 2   \* entries appended to the streams the relay reads
MaxList == 2        \* chord segments, words, beat times listed in a call of the fusion
MaxGrid == 3        \* durations tried reach MaxGrid steps of the grid
MaxBacklog == 11    \* messages pending under one consumer name when a process starts

(***************************************************************************)
(* Program constants.                                                      *)
(***************************************************************************)
MAX_RETRIES == 3    \* StreamWorker.MAX_RETRIES
RETRY_TTL == 3600   \* ex=3600 of _set_attempt_count, seconds
RecoverCount == 10  \* count=10 of the recovery read
LiveCount == 1      \* count=1 of the live read
RelayCount == 10    \* count=10 of the relay's read

Workers == {1}               \* worker process slots (one process at a time, restarted under any name)
MsgIds == 1..MaxMsgs
\* consumer_name = GROUP-<uuid4().hex[:8]>: a random token, so two instances
\* usually differ ("n1" vs "n2") and may, rarely, coincide.
Names == {"n1", "n2"}
NoName == "-"
Sessions == {"s1", "s2"}
NoSession == "none"          \* the message fields carry no session_id
\* the messages fed to the runtime model: a message of a session that the
\* handler can process, and messages it raises on, with and without session_id
MsgKinds == {[session_id |-> "s1", poison |-> FALSE],
             [session_id |-> "s1", poison |-> TRUE],
             [session_id |-> NoSession, poison |-> TRUE]}

VARIABLES
    wstream,        \* STREAM: sequence of message fields, id = position
    groupMade,      \* the consumer group exists on STREAM
    lastDelivered,  \* the group's last-delivered id
    pel,            \* pending-entries list: id -> owning consumer name
    retries,        \* sap:retries:<STREAM>:<id> counters, 0 = key absent
    expiry,         \* time to live of each counter key in seconds, 0 = none set
    dlq,            \* <STREAM>:dlq
    statusLog,      \* sap:session:status
    wpc,            \* position of each worker process
    wname,          \* consumer_name of each worker process
    wrunning,       \* self._running
    wbatch,         \* messages returned by the last read, not yet dispatched
    wcur,           \* message being handled by _handle_message
    wattempt,       \* local variable attempt of _handle_message
    starts,         \* number of process starts so far
    failedCnt,      \* history: times process() raised on each message (counted up to MAX_RETRIES)
    orphan,         \* history: ids a process was holding, unacknowledged, when it crashed
    retryDue,       \* history: ids left unacknowledged by a failed attempt, not handled since
    mustRecover,    \* history: orphans and ids due for retry when a process started, not handled since
    cut,            \* history: ids whose dead-letter escalation a crash cut short
    astream,        \* sap:align:pending: sequence of message fields, id = position
    alLast,         \* last-delivered id of the group align-workers
    alPel,          \* ids delivered to an aligner and not yet acknowledged
    tracker,        \* sap:align:tracker:<session_id> hashes
    dbStatus,       \* audio_sessions.status
    dbDuration,     \* audio_sessions.duration_sec in ms, 0 = NULL
    dbFrames,       \* perception_frames: the committed batches of rows of each session
    resultsLog,     \* sap:results:stream
    coord,          \* each aligner instance: position and locals of process()
    fusionLog,      \* history: the invocations of _build_and_store_frames
    partialsIn,     \* history: 'asr' ids appended to a session's list since the hash was last deleted
    pending,        \* the pending stream of each stage: sequence of session ids
    taken,          \* messages of each pending stream delivered so far
    pp,             \* PreprocessWorker: position in process() and session handled
    recordLog,      \* history: the statuses written to audio_sessions.status
    wlive,          \* the worker process has entered Phase 2 of run()
    faults,         \* number of log-service calls that have raised
    rin,            \* the entries of the three streams the relay reads, in XADD order, id = position
    rlast,          \* last-delivered id of the group gateway-relays on each stream
    rpel,           \* ids delivered to the relay and not yet acknowledged
    conns,          \* WebSocketManager._connections: the set each session id reads as
    regKeys,        \* the session ids that are keys of WebSocketManager._connections
    sock,           \* each WebSocket: the await its route handler is at
    rrunning,       \* WebSocketManager._running
    relay,          \* the relay task: the await it is suspended at, and its locals
    wsLog,          \* history: the calls of ws.send_json made by broadcast()
    rsnap,          \* history: the set broadcast() copied when it started on each message
    rdone,          \* history: ids whose broadcast() returned
    fin,            \* the arguments of a call of build_perception_frames
    fout            \* what the call returned

rtVars == <<wstream, groupMade, lastDelivered, pel, retries, expiry, dlq, statusLog,
            wpc, wname, wrunning, wbatch, wcur, wattempt, starts,
            failedCnt, orphan, retryDue, mustRecover, cut>>

alVars == <<astream, alLast, alPel, tracker, dbStatus, dbDuration, dbFrames,
            resultsLog, coord, fusionLog, partialsIn>>

plVars == <<pending, taken, pp>>

ftVars == <<wlive, faults>>

gwVars == <<rin, rlast, rpel, conns, regKeys, sock, rrunning, relay, wsLog, rsnap, rdone>>

fnVars == <<fin, fout>>

vars == <<rtVars, alVars, plVars, recordLog, ftVars, gwVars, fnVars>>

\* variables of the other components, which no StreamWorker step touches
notWorker == <<alVars, plVars, recordLog, gwVars, fnVars>>

\* variables a StreamWorker step leaves alone unless it says otherwise
notRuntime == <<notWorker, ftVars>>

\* the StreamWorker variables but the status log, which every stage appends to
rtButStatus == <<wstream, groupMade, lastDelivered, pel, retries, expiry, dlq,
                 wpc, wname, wrunning, wbatch, wcur, wattempt, starts,
                 failedCnt, orphan, retryDue, mustRecover, cut, ftVars,
                 gwVars, fnVars>>

----------------------------------------------------------------------------
(***************************************************************************)
(* Helpers.                                                                *)
(***************************************************************************)
RECURSIVE SeqOfSet(_)
SeqOfSet(S) ==
    IF S = {} THEN <<>>
    ELSE LET m == CHOOSE x \in S : \A y \in S : x <= y
         IN <<m>> \o SeqOfSet(S \ {m})

Prefix(s, n) == IF Len(s) <= n THEN s ELSE SubSeq(s, 1, n)

Count(s, P(_)) == Cardinality({i \in 1..Len(s) : P(s[i])})

\* data.get("session_id", "unknown")
SessionOrUnknown(fields) ==
    IF fields.session_id = NoSession THEN "unknown" ELSE fields.session_id

\* XREADGROUP GROUP g c STREAMS s 0 COUNT n: the PEL entries owned by c
PendingOf(name) == {m \in DOMAIN pel : pel[m] = name}
XReadPending(name, n) == Prefix(SeqOfSet(PendingOf(name)), n)

\* XREADGROUP GROUP g c STREAMS s > COUNT n: ids after the last-delivered id
XReadNew(n) ==
    LET hi == IF lastDelivered + n <= Len(wstream)
              THEN lastDelivered + n ELSE Len(wstream)
    IN [i \in 1..(hi - lastDelivered) |-> lastDelivered + i]

InitRuntime ==
    /\ wstream = <<>>
    /\ groupMade = FALSE
    /\ lastDelivered = 0
    /\ pel = [m \in MsgIds |-> NoName]
    /\ retries = [m \in MsgIds |-> 0]
    /\ expiry = [m \in MsgIds |-> 0]
    /\ dlq = <<>>
    /\ statusLog = <<>>
    /\ wpc = [w \in Workers |-> "dead"]
    /\ wname = [w \in Workers |-> NoName]
    /\ wrunning = [w \in Workers |-> FALSE]
    /\ wbatch = [w \in Workers |-> <<>>]
    /\ wcur = [w \in Workers |-> 0]
    /\ wattempt = [w \in Workers |-> 0]
    /\ starts = 0
    /\ failedCnt = [m \in MsgIds |-> 0]
    /\ orphan = {}
    /\ retryDue = {}
    /\ mustRecover = [w \in Workers |-> {}]
    /\ cut = {}
    /\ wlive = [w \in Workers |-> FALSE]
    /\ faults = 0

----------------------------------------------------------------------------
(***************************************************************************)
(* StreamWorker: one step per awaited call.                                *)
(***************************************************************************)

\* The messages a worker process has been handed by its last read and has
\* not finished handling.
InFlight(w) ==
    (IF wcur[w] = 0 THEN {} ELSE {wcur[w]})
        \cup {wbatch[w][i] : i \in 1..Len(wbatch[w])}

\* A message id leaves the set of orphans when it is handled again or acked.
Unorphan(m) ==
    /\ orphan' = orphan \ {m}
    /\ retryDue' = retryDue \ {m}
    /\ mustRecover' = [w \in Workers |-> mustRecover[w] \ {m}]

\* The for-loops of run(): take the next message of the batch just read, or
\* fall through to the `while self._running` test when none is left.
Continue(w, batch) ==
    IF batch = <<>>
    THEN /\ wpc' = [wpc EXCEPT ![w] = "loop"]
         /\ wcur' = [wcur EXCEPT ![w] = 0]
         /\ wbatch' = [wbatch EXCEPT ![w] = <<>>]
    ELSE /\ wpc' = [wpc EXCEPT ![w] = "get_attempt"]
         /\ wcur' = [wcur EXCEPT ![w] = Head(batch)]
         /\ wbatch' = [wbatch EXCEPT ![w] = Tail(batch)]

\* A producer appends a message to STREAM (XADD).  process() raises on every
\* call for a message with poison = TRUE (a payload the handler cannot take).
Produce(sid, poison) ==
    /\ Len(wstream) < MaxMsgs
    /\ wstream' = Append(wstream, [session_id |-> sid, poison |-> poison])
    /\ UNCHANGED <<groupMade, lastDelivered, pel, retries, expiry, dlq, statusLog,
                   wpc, wname, wrunning, wbatch, wcur, wattempt, starts,
                   failedCnt, orphan, retryDue, mustRecover, cut>>
    /\ UNCHANGED notRuntime

\* __init__ and the head of run(): a fresh consumer name, _running = True.
Start(w, name) ==
    /\ wpc[w] \in {"dead", "stopped"}
    /\ starts < MaxStarts
    /\ starts' = starts + 1
    /\ wname' = [wname EXCEPT ![w] = name]
    /\ wrunning' = [wrunning EXCEPT ![w] = TRUE]
    /\ wpc' = [wpc EXCEPT ![w] = "ensure_group"]
    /\ mustRecover' = [mustRecover EXCEPT ![w] = orphan \cup retryDue]
    /\ wlive' = [wlive EXCEPT ![w] = FALSE]
    /\ UNCHANGED <<wstream, groupMade, lastDelivered, pel, retries, expiry, dlq,
                   statusLog, wbatch, wcur, wattempt, failedCnt,
                   orphan, retryDue, cut>>
    /\ UNCHANGED <<notWorker, faults>>

\* variant: the group is made anew at every start (cursor back to id 0, no
\* pending entries)
EnsureGroupAnew(w) ==
    /\ wpc[w] = "ensure_group"
    /\ groupMade' = TRUE
    /\ lastDelivered' = 0
    /\ pel' = [m \in DOMAIN pel |-> NoName]
    /\ wpc' = [wpc EXCEPT ![w] = "recover_read"]
    /\ UNCHANGED <<wstream, retries, expiry, dlq, statusLog,
                   wname, wrunning, wbatch, wcur, wattempt, starts,
                   failedCnt, orphan, retryDue, mustRecover, cut>>
    /\ UNCHANGED notRuntime

\* _ensure_group: XGROUP CREATE id=0 MKSTREAM makes the group with its cursor
\* at id 0 and nothing pending; when the group is there the service answers
\* BUSYGROUP, which is swallowed.
EnsureGroup(w) ==
    /\ wpc[w] = "ensure_group"
    /\ groupMade' = TRUE
    /\ IF groupMade
       THEN UNCHANGED <<lastDelivered, pel>>
       ELSE /\ lastDelivered' = 0
            /\ pel' = [m \in DOMAIN pel |-> NoName]
    /\ wpc' = [wpc EXCEPT ![w] = "recover_read"]
    /\ UNCHANGED <<wstream, retries, expiry, dlq, statusLog,
                   wname, wrunning, wbatch, wcur, wattempt, starts,
                   failedCnt, orphan, retryDue, mustRecover, cut>>
    /\ UNCHANGED notRuntime

\* Phase 1: xreadgroup(GROUP, consumer_name, {STREAM: "0"}, count=10).
RecoverRead(w) ==
    /\ wpc[w] = "recover_read"
    /\ LET got == XReadPending(wname[w], RecoverCount)
       IN Continue(w, got)
    /\ UNCHANGED <<wstream, groupMade, lastDelivered, pel, retries, expiry, dlq,
                   statusLog, wname, wrunning, wattempt, starts, failedCnt, orphan, retryDue, mustRecover, cut>>
    /\ UNCHANGED notRuntime

\* variant: `while True`
LoopCheckAlways(w) ==
    /\ wpc[w] = "loop"
    /\ wpc' = [wpc EXCEPT ![w] = "live_read"]
    /\ wlive' = [wlive EXCEPT ![w] = TRUE]
    /\ UNCHANGED <<wstream, groupMade, lastDelivered, pel, retries, expiry, dlq,
                   statusLog, wname, wrunning, wbatch, wcur, wattempt, starts,
                   failedCnt, orphan, retryDue, mustRecover, cut>>
    /\ UNCHANGED <<notWorker, faults>>

\* `while self._running`
LoopCheck(w) ==
    /\ wpc[w] = "loop"
    /\ wpc' = [wpc EXCEPT ![w] = IF wrunning[w] THEN "live_read" ELSE "cleanup"]
    /\ wlive' = [wlive EXCEPT ![w] = TRUE]
    /\ UNCHANGED <<wstream, groupMade, lastDelivered, pel, retries, expiry, dlq,
                   statusLog, wname, wrunning, wbatch, wcur, wattempt, starts,
                   failedCnt, orphan, retryDue, mustRecover, cut>>
    /\ UNCHANGED <<notWorker, faults>>

\* Phase 2: xreadgroup(GROUP, consumer_name, {STREAM: ">"}, count=1, block).
\* An empty result (block timeout) leads back to the loop test.
LiveRead(w) ==
    /\ wpc[w] = "live_read"
    /\ LET got == XReadNew(LiveCount)
       IN /\ Continue(w, got)
          /\ lastDelivered' = lastDelivered + Len(got)
          /\ pel' = [m \in DOMAIN pel |->
                       IF \E i \in 1..Len(got) : got[i] = m
                       THEN wname[w] ELSE pel[m]]
    /\ UNCHANGED <<wstream, groupMade, retries, expiry, dlq, statusLog, wname,
                   wrunning, wattempt, starts, failedCnt, orphan, retryDue,
                   mustRecover, cut>>
    /\ UNCHANGED notRuntime

\* _handle_message: attempt = await self._get_attempt_count(msg_id)
GetAttempt(w) ==
    /\ wpc[w] = "get_attempt"
    /\ wattempt' = [wattempt EXCEPT ![w] = retries[wcur[w]]]
    /\ wpc' = [wpc EXCEPT ![w] = "process"]
    /\ UNCHANGED <<wstream, groupMade, lastDelivered, pel, retries, expiry, dlq,
                   statusLog, wname, wrunning, wbatch, wcur, starts, failedCnt, orphan, retryDue, mustRecover, cut>>
    /\ UNCHANGED notRuntime

\* variant: the bound tested one attempt late
ExhaustedLate(attempt) == attempt > MAX_RETRIES

\* variant: the bound tested one attempt early
ExhaustedEarly(attempt) == attempt >= MAX_RETRIES - 1

\* if attempt >= self.MAX_RETRIES
Exhausted(attempt) == attempt >= MAX_RETRIES

\* await self.process(msg_id, data): returns, or raises and the except
\* branch adds one to attempt and picks the dead-letter or the retry path.
Process(w, ok) ==
    /\ wpc[w] = "process"
    /\ wstream[wcur[w]].poison => ~ok
    /\ Unorphan(wcur[w])
    /\ IF ok
       THEN /\ wpc' = [wpc EXCEPT ![w] = "ack"]
            /\ UNCHANGED <<wattempt, failedCnt>>
       ELSE /\ wattempt' = [wattempt EXCEPT ![w] = @ + 1]
            /\ failedCnt' = [failedCnt EXCEPT ![wcur[w]] =
                              IF @ < MAX_RETRIES THEN @ + 1 ELSE @]
            /\ wpc' = [wpc EXCEPT ![w] =
                         IF Exhausted(wattempt[w] + 1)
                         THEN "dlq_add" ELSE "set_attempt"]
    /\ UNCHANGED <<wstream, groupMade, lastDelivered, pel, retries, expiry, dlq,
                   statusLog, wname, wrunning, wbatch, wcur, starts, cut>>
    /\ UNCHANGED notRuntime

\* success: await client.xack(self.STREAM, self.GROUP, msg_id)
Ack(w) ==
    /\ wpc[w] = "ack"
    /\ pel' = [pel EXCEPT ![wcur[w]] = NoName]
    /\ wpc' = [wpc EXCEPT ![w] = "del_counter"]
    /\ UNCHANGED <<wstream, groupMade, lastDelivered, retries, expiry, dlq, statusLog,
                   wname, wrunning, wbatch, wcur, wattempt, starts, failedCnt, orphan, retryDue, mustRecover, cut>>
    /\ UNCHANGED notRuntime

\* variant: the success path leaves the retry counter in place
DelCounterKeep(w) ==
    /\ wpc[w] = "del_counter"
    /\ Continue(w, wbatch[w])
    /\ UNCHANGED <<wstream, groupMade, lastDelivered, pel, retries, expiry, dlq, statusLog,
                   wname, wrunning, wattempt, starts, failedCnt, orphan, retryDue, mustRecover, cut>>
    /\ UNCHANGED notRuntime

\* success: await client.delete(retry_key)
DelCounter(w) ==
    /\ wpc[w] = "del_counter"
    /\ retries' = [retries EXCEPT ![wcur[w]] = 0]
    /\ expiry' = [expiry EXCEPT ![wcur[w]] = 0]
    /\ Continue(w, wbatch[w])
    /\ UNCHANGED <<wstream, groupMade, lastDelivered, pel, dlq, statusLog,
                   wname, wrunning, wattempt, starts, failedCnt, orphan, retryDue, mustRecover, cut>>
    /\ UNCHANGED notRuntime

\* variant: the dead-letter entry records the stored count, not the new one
DlqDataStale(fields, msg_id, attempt) ==
    [session_id |-> fields.session_id, poison |-> fields.poison,
     original_id |-> msg_id, attempts |-> ToString(attempt - 1)]

\* dlq_data = {**data, "original_id": msg_id, "attempts": str(attempt)}
DlqData(fields, msg_id, attempt) ==
    [session_id |-> fields.session_id, poison |-> fields.poison,
     original_id |-> msg_id, attempts |-> ToString(attempt)]

\* variant: the dead-letter path goes to its xack with nothing appended
DlqAddNothing(w) ==
    /\ wpc[w] = "dlq_add"
    /\ wpc' = [wpc EXCEPT ![w] = "dlq_ack"]
    /\ UNCHANGED <<wstream, groupMade, lastDelivered, pel, retries, expiry, dlq, statusLog,
                   wname, wrunning, wbatch, wcur, wattempt, starts, failedCnt, orphan, retryDue, mustRecover, cut>>
    /\ UNCHANGED notRuntime

\* await client.xadd(f"{self.STREAM}:dlq", dlq_data)
DlqAdd(w) ==
    /\ wpc[w] = "dlq_add"
    /\ dlq' = Append(dlq, DlqData(wstream[wcur[w]], wcur[w], wattempt[w]))
    /\ wpc' = [wpc EXCEPT ![w] = "dlq_ack"]
    /\ UNCHANGED <<wstream, groupMade, lastDelivered, pel, retries, expiry, statusLog,
                   wname, wrunning, wbatch, wcur, wattempt, starts, failedCnt, orphan, retryDue, mustRecover, cut>>
    /\ UNCHANGED notRuntime

\* await client.xack(self.STREAM, self.GROUP, msg_id) of the dead-letter path
DlqAck(w) ==
    /\ wpc[w] = "dlq_ack"
    /\ pel' = [pel EXCEPT ![wcur[w]] = NoName]
    /\ wpc' = [wpc EXCEPT ![w] = "dlq_status"]
    /\ UNCHANGED <<wstream, groupMade, lastDelivered, retries, expiry, dlq, statusLog,
                   wname, wrunning, wbatch, wcur, wattempt, starts, failedCnt, orphan, retryDue, mustRecover, cut>>
    /\ UNCHANGED notRuntime

\* update_session_status(session_id, status, error): one entry on
\* sap:session:status
\* sap:session:status (msg is a history field: the id of the message whose
\* escalation published the entry, 0 for an entry a handler published)
StatusEntry(session_id, status, msg) ==
    [session_id |-> session_id, status |-> status, msg |-> msg]

\* await self.update_session_status(session_id, "failed", "Exceeded ...")
DlqStatus(w) ==
    /\ wpc[w] = "dlq_status"
    /\ statusLog' = Append(statusLog,
           StatusEntry(SessionOrUnknown(wstream[wcur[w]]), "failed", wcur[w]))
    /\ Continue(w, wbatch[w])
    /\ UNCHANGED <<wstream, groupMade, lastDelivered, pel, retries, expiry, dlq,
                   wname, wrunning, wattempt, starts, failedCnt, orphan, retryDue, mustRecover, cut>>
    /\ UNCHANGED notRuntime

\* variant: a failed handler ends the worker's loop after the retry counter
\* is written, instead of going on with the batch.
SetAttemptStop(w) ==
    /\ wpc[w] = "set_attempt"
    /\ retries' = [retries EXCEPT ![wcur[w]] = wattempt[w]]
    /\ expiry' = [expiry EXCEPT ![wcur[w]] = RETRY_TTL]
    /\ retryDue' = retryDue \cup {wcur[w]}
    /\ wpc' = [wpc EXCEPT ![w] = "cleanup"]
    /\ wcur' = [wcur EXCEPT ![w] = 0]
    /\ wbatch' = [wbatch EXCEPT ![w] = <<>>]
    /\ UNCHANGED <<wstream, groupMade, lastDelivered, pel, dlq, statusLog,
                   wname, wrunning, wattempt, starts, failedCnt, orphan, mustRecover, cut>>
    /\ UNCHANGED notRuntime

\* variant: the count is stored with no expiry
SetAttemptForever(w) ==
    /\ wpc[w] = "set_attempt"
    /\ retries' = [retries EXCEPT ![wcur[w]] = wattempt[w]]
    /\ retryDue' = retryDue \cup {wcur[w]}
    /\ Continue(w, wbatch[w])
    /\ UNCHANGED <<wstream, groupMade, lastDelivered, pel, expiry, dlq, statusLog,
                   wname, wrunning, wattempt, starts, failedCnt, orphan, mustRecover, cut>>
    /\ UNCHANGED notRuntime

\* else: await self._set_attempt_count(msg_id, attempt)
\* (client.set(key, str(count), ex=3600))
SetAttempt(w) ==
    /\ wpc[w] = "set_attempt"
    /\ retries' = [retries EXCEPT ![wcur[w]] = wattempt[w]]
    /\ expiry' = [expiry EXCEPT ![wcur[w]] = RETRY_TTL]
    /\ retryDue' = retryDue \cup {wcur[w]}
    /\ Continue(w, wbatch[w])
    /\ UNCHANGED <<wstream, groupMade, lastDelivered, pel, dlq, statusLog,
                   wname, wrunning, wattempt, starts, failedCnt, orphan, mustRecover, cut>>
    /\ UNCHANGED notRuntime

\* SIGTERM / SIGINT: _stop() clears self._running
Signal(w) ==
    /\ wpc[w] \notin {"dead", "stopped"}
    /\ wrunning[w]
    /\ wrunning' = [wrunning EXCEPT ![w] = FALSE]
    /\ UNCHANGED <<wstream, groupMade, lastDelivered, pel, retries, expiry, dlq,
                   statusLog, wpc, wname, wbatch, wcur, wattempt, starts,
                   failedCnt, orphan, retryDue, mustRecover, cut>>
    /\ UNCHANGED notRuntime

\* Cleanup: await self._client.aclose(); run() returns
Cleanup(w) ==
    /\ wpc[w] = "cleanup"
    /\ wpc' = [wpc EXCEPT ![w] = "stopped"]
    /\ UNCHANGED <<wstream, groupMade, lastDelivered, pel, retries, expiry, dlq,
                   statusLog, wname, wrunning, wbatch, wcur, wattempt, starts,
                   failedCnt, orphan, retryDue, mustRecover, cut>>
    /\ UNCHANGED notRuntime

\* The process dies (kill -9, OOM, host loss) wherever it is; what it held
\* in memory is gone, what it wrote to the log service stays.
Crash(w) ==
    /\ wpc[w] \notin {"dead", "stopped"}
    /\ wpc' = [wpc EXCEPT ![w] = "dead"]
    /\ wrunning' = [wrunning EXCEPT ![w] = FALSE]
    /\ wbatch' = [wbatch EXCEPT ![w] = <<>>]
    /\ wcur' = [wcur EXCEPT ![w] = 0]
    /\ wattempt' = [wattempt EXCEPT ![w] = 0]
    /\ orphan' = orphan \cup {m \in InFlight(w) : pel[m] # NoName}
    /\ cut' = IF wpc[w] \in {"dlq_ack", "dlq_status"}
              THEN cut \cup {wcur[w]} ELSE cut
    /\ UNCHANGED <<wstream, groupMade, lastDelivered, pel, retries, expiry, dlq,
                   statusLog, wname, starts, retryDue, failedCnt,
                   mustRecover>>
    /\ UNCHANGED notRuntime

WorkerStep(w) ==
    \/ EnsureGroup(w) \/ RecoverRead(w) \/ LoopCheck(w) \/ LiveRead(w)
    \/ GetAttempt(w) \/ \E ok \in BOOLEAN : Process(w, ok)
    \/ Ack(w) \/ DelCounter(w) \/ DlqAdd(w) \/ DlqAck(w) \/ DlqStatus(w)
    \/ SetAttempt(w) \/ Cleanup(w)

NextWorker ==
    \/ \E kind \in MsgKinds : Produce(kind.session_id, kind.poison)
    \/ \E w \in Workers, name \in Names : Start(w, name)
    \/ \E w \in Workers : EnsureGroup(w)
    \/ \E w \in Workers : RecoverRead(w)
    \/ \E w \in Workers : LoopCheck(w)
    \/ \E w \in Workers : LiveRead(w)
    \/ \E w \in Workers : GetAttempt(w)
    \/ \E w \in Workers, ok \in BOOLEAN : Process(w, ok)
    \/ \E w \in Workers : Ack(w)
    \/ \E w \in Workers : DelCounter(w)
    \/ \E w \in Workers : DlqAdd(w)
    \/ \E w \in Workers : DlqAck(w)
    \/ \E w \in Workers : DlqStatus(w)
    \/ \E w \in Workers : SetAttempt(w)
    \/ \E w \in Workers : Signal(w)
    \/ \E w \in Workers : Cleanup(w)
    \/ \E w \in Workers : Crash(w)

----------------------------------------------------------------------------
(***************************************************************************)
(* Calls to the log service that raise (connection lost, timeout).  The    *)
(* awaited call of the worker's position raises instead of taking effect.  *)
(***************************************************************************)
\* calls inside the try block of _handle_message, after process() returned
InTry == {"ack", "del_counter"}
\* calls of _handle_message outside its try block, or inside its except block
OutOfTry == {"get_attempt", "dlq_add", "dlq_ack", "dlq_status", "set_attempt"}

FaultCount ==
    /\ faults < MaxFaults
    /\ faults' = faults + 1

\* xack or delete raises after process() returned: the except branch of
\* _handle_message takes it for a failed attempt
FaultInTry(w) ==
    /\ wpc[w] \in InTry
    /\ FaultCount
    /\ wattempt' = [wattempt EXCEPT ![w] = @ + 1]
    /\ wpc' = [wpc EXCEPT ![w] =
                 IF Exhausted(wattempt[w] + 1) THEN "dlq_add" ELSE "set_attempt"]
    /\ UNCHANGED <<wstream, groupMade, lastDelivered, pel, retries, expiry, dlq,
                   statusLog, wname, wrunning, wbatch, wcur, starts, failedCnt,
                   orphan, retryDue, mustRecover, cut>>
    /\ UNCHANGED <<notWorker, wlive>>

\* Phase 2: the read raises, or _handle_message lets the exception through;
\* `except Exception` of the while loop logs it and goes to sleep(1)
FaultCaught(w) ==
    /\ wlive[w]
    /\ wpc[w] \in {"live_read"} \cup OutOfTry
    /\ FaultCount
    /\ wpc' = [wpc EXCEPT ![w] = "backoff"]
    /\ wbatch' = [wbatch EXCEPT ![w] = <<>>]
    /\ wcur' = [wcur EXCEPT ![w] = 0]
    /\ wattempt' = [wattempt EXCEPT ![w] = 0]
    /\ cut' = IF wpc[w] \in {"dlq_ack", "dlq_status"}
              THEN cut \cup {wcur[w]} ELSE cut
    /\ UNCHANGED <<wstream, groupMade, lastDelivered, pel, retries, expiry, dlq,
                   statusLog, wname, wrunning, starts, failedCnt,
                   orphan, retryDue, mustRecover>>
    /\ UNCHANGED <<notWorker, wlive>>

\* before Phase 2 nothing catches the exception: it leaves run() and the
\* process ends, its connection not closed
FaultFatal(w) ==
    /\ ~wlive[w]
    /\ wpc[w] \in {"ensure_group", "recover_read"} \cup OutOfTry
    /\ FaultCount
    /\ wpc' = [wpc EXCEPT ![w] = "dead"]
    /\ wrunning' = [wrunning EXCEPT ![w] = FALSE]
    /\ wbatch' = [wbatch EXCEPT ![w] = <<>>]
    /\ wcur' = [wcur EXCEPT ![w] = 0]
    /\ wattempt' = [wattempt EXCEPT ![w] = 0]
    /\ orphan' = orphan \cup {m \in InFlight(w) : pel[m] # NoName}
    /\ cut' = IF wpc[w] \in {"dlq_ack", "dlq_status"}
              THEN cut \cup {wcur[w]} ELSE cut
    /\ UNCHANGED <<wstream, groupMade, lastDelivered, pel, retries, expiry, dlq,
                   statusLog, wname, starts, retryDue, failedCnt,
                   mustRecover>>
    /\ UNCHANGED <<notWorker, wlive>>

\* await asyncio.sleep(1), then back to `while self._running`
Backoff(w) ==
    /\ wpc[w] = "backoff"
    /\ wpc' = [wpc EXCEPT ![w] = "loop"]
    /\ UNCHANGED <<wstream, groupMade, lastDelivered, pel, retries, expiry, dlq,
                   statusLog, wname, wrunning, wbatch, wcur, wattempt, starts,
                   failedCnt, orphan, retryDue, mustRecover, cut>>
    /\ UNCHANGED notRuntime

NextFaulty ==
    \/ NextWorker
    \/ \E w \in Workers : FaultInTry(w)
    \/ \E w \in Workers : FaultCaught(w)
    \/ \E w \in Workers : FaultFatal(w)
    \/ \E w \in Workers : Backoff(w)

\* a hash field that is not there (hget gives None), and one holding v
Nil == <<>>
Some(v) == <<v>>
NoTracker == [music |-> Nil, music_received |-> Nil, asr_partials |-> Nil,
              asr_final |-> Nil, asr_final_received |-> Nil]
Coords == {1, 2}             \* AlignerWorker instances
AlignIds == 1..MaxAlign
IdleCoord == [pc |-> "idle", msg |-> 0, existing |-> Nil, music_received |-> Nil,
              music_data |-> Nil, asr_data |-> Nil, duration_sec |-> 0,
              frames |-> <<>>, deleted |-> {}]

\* The aligner's world before any analysis result arrives: the sessions exist
\* (routes/sessions.py, routes/upload.py), their audio has been uploaded, no
\* duration has been recorded.
InitAlignerWith(status) ==
    /\ astream = <<>>
    /\ alLast = 0
    /\ alPel = {}
    /\ tracker = [s \in Sessions |-> NoTracker]
    /\ dbStatus = [s \in Sessions |-> status]
    /\ dbDuration = [s \in Sessions |-> 0]
    /\ dbFrames = [s \in Sessions |-> {}]
    /\ resultsLog = <<>>
    /\ coord = [c \in Coords |-> IdleCoord]
    /\ fusionLog = <<>>
    /\ partialsIn = [s \in Sessions |-> {}]
InitAligner == InitAlignerWith("uploading")

Stages == {"sap:preprocess:pending", "sap:asr:pending", "sap:asr:whisper:pending",
           "sap:music:pending", "sap:flamingo:pending", "sap:tts:pending"}
NoPreprocess == [pc |-> "idle", session_id |-> NoSession]
InitStages ==
    /\ pending = [q \in Stages |-> <<>>]
    /\ taken = [q \in Stages |-> 0]
    /\ pp = NoPreprocess
    /\ recordLog = <<>>

\* streams = ["sap:results:stream", "sap:session:status", "sap:tts:complete"]
RelayStreams == <<"sap:results:stream", "sap:session:status", "sap:tts:complete">>
RelayStreamSet == {RelayStreams[k] : k \in 1..Len(RelayStreams)}
\* the WebSocket objects of the gateway, and the session_id of the path each
\* one was opened on: two clients of session s1
Sockets == {"wa", "wb"}
\* a client of session s1 and a client of session s2
TwoRoutes == {"wa", "wc"}
RouteOf == [ws \in Sockets \cup TwoRoutes |-> IF ws = "wc" THEN "s2" ELSE "s1"]
\* the entries fed to the relay: of session s1, or without a session_id
RelaySessions == {"s1", ""}
IdleRelay == [pc |-> "idle", batch |-> <<>>, cur |-> 0, todo |-> {}, dead |-> {}]

\* WebSocketManager.__init__, before start(); nothing appended to the streams
InitRelay ==
    /\ rin = <<>>
    /\ rlast = [st \in RelayStreamSet |-> 0]
    /\ rpel = {}
    /\ conns = [sid \in Sessions |-> {}]
    /\ regKeys = {}
    /\ sock = [ws \in Sockets |-> "new"]
    /\ rrunning = FALSE
    /\ relay = IdleRelay
    /\ wsLog = <<>>
    /\ rsnap = [i \in 1..MaxRelayMsgs |-> Nil]
    /\ rdone = {}

\* no call of build_perception_frames under way
InitNoCall ==
    /\ fin = Nil
    /\ fout = Nil

InitWorker == InitRuntime /\ InitAligner /\ InitStages /\ InitRelay /\ InitNoCall

SpecWorker == InitWorker /\ [][NextWorker]_vars

\* The event loop keeps running every worker coroutine that can take a step.
FairWorker == SpecWorker /\ \A w \in Workers : WF_vars(WorkerStep(w))

SpecFaulty == InitWorker /\ [][NextFaulty]_vars

\* A worker named n1 has read n messages in its live loop, process() raised
\* once on each, each count 1 was stored, and the process was stopped: the n
\* messages are pending under n1.  A process is then started, once, under
\* the same or another name, and runs undisturbed; the handler can process
\* every message and may raise again.
InitBacklog ==
    /\ \E n \in 0..MaxBacklog :
          /\ wstream = [m \in 1..n |-> [session_id |-> "s1", poison |-> FALSE]]
          /\ lastDelivered = n
          /\ pel = [m \in 1..n |-> "n1"]
          /\ retries = [m \in 1..n |-> 1]
          /\ expiry = [m \in 1..n |-> RETRY_TTL]
          /\ failedCnt = [m \in 1..n |-> 1]
          /\ retryDue = 1..n
    /\ groupMade = TRUE
    /\ dlq = <<>>
    /\ statusLog = <<>>
    /\ wpc = [w \in Workers |-> "stopped"]
    /\ wname = [w \in Workers |-> "n1"]
    /\ wrunning = [w \in Workers |-> FALSE]
    /\ wbatch = [w \in Workers |-> <<>>]
    /\ wcur = [w \in Workers |-> 0]
    /\ wattempt = [w \in Workers |-> 0]
    /\ starts = 1
    /\ orphan = {}
    /\ mustRecover = [w \in Workers |-> {}]
    /\ cut = {}
    /\ wlive = [w \in Workers |-> FALSE]
    /\ faults = 0
    /\ InitAligner /\ InitStages /\ InitRelay /\ InitNoCall

NextBacklog ==
    \/ \E w \in Workers, name \in Names : Start(w, name)
    \/ \E w \in Workers : EnsureGroup(w)
    \/ \E w \in Workers : RecoverRead(w)
    \/ \E w \in Workers : LoopCheck(w)
    \/ \E w \in Workers : LiveRead(w)
    \/ \E w \in Workers : GetAttempt(w)
    \/ \E w \in Workers, ok \in BOOLEAN : Process(w, ok)
    \/ \E w \in Workers : Ack(w)
    \/ \E w \in Workers : DelCounter(w)
    \/ \E w \in Workers : SetAttempt(w)

SpecBacklog == InitBacklog /\ [][NextBacklog]_vars

----------------------------------------------------------------------------
(***************************************************************************)
(* build_perception_frames (aligner/fusion.py).  Times are whole           *)
(* milliseconds; texts are sequences of characters.                        *)
(***************************************************************************)
FRAME_RESOLUTION == 250      \* 0.250 s

\* sorted(xs, key=...): Python's sort is stable
Rank(keys, i) ==
    1 + Cardinality({j \in 1..Len(keys) :
                        keys[j] < keys[i] \/ (keys[j] = keys[i] /\ j < i)})
\* variant: the list is used in the order it was given
KeepOrder(xs, keys) == xs

StableSort(xs, keys) ==
    [p \in 1..Len(xs) |-> xs[CHOOSE i \in 1..Len(xs) : Rank(keys, i) = p]]

\* bisect.bisect_left(a, x) on a sorted list, as a 0-based index
BisectLeft(a, x) == Cardinality({i \in 1..Len(a) : a[i] < x})

RECURSIVE Flatten(_)
Flatten(ss) == IF ss = <<>> THEN <<>> ELSE Head(ss) \o Flatten(Tail(ss))

\* all_words: the words of every transcript segment, sorted by start
AllWords(transcript_segments) ==
    LET ws == Flatten([k \in 1..Len(transcript_segments) |->
                          transcript_segments[k].words])
    IN StableSort(ws, [k \in 1..Len(ws) |-> ws[k].start])

\* feature_map.get(t, {"rms": 0.0, "spectral_centroid": 0.0}): the dict keeps
\* the last feature listed for a time
FeatureAt(audio_features, t) ==
    LET hits == {k \in 1..Len(audio_features) : audio_features[k].t = t}
    IN IF hits = {}
       THEN [rms |-> 0, spectral_centroid |-> 0]
       ELSE LET f == audio_features[CHOOSE k \in hits : \A j \in hits : j <= k]
            IN [rms |-> f.rms, spectral_centroid |-> f.spectral_centroid]

\* variant: the search skips a beat that falls on the frame time (bisect_right)
HasBeatAfter(beat_times, t) ==
    LET beat_idx == Cardinality({i \in 1..Len(beat_times) : beat_times[i] <= t})
    IN beat_idx < Len(beat_times)
         /\ beat_times[beat_idx + 1] < t + FRAME_RESOLUTION

\* has_beat
HasBeat(beat_times, t) ==
    LET beat_idx == BisectLeft(beat_times, t)
    IN beat_idx < Len(beat_times)
         /\ beat_times[beat_idx + 1] < t + FRAME_RESOLUTION

\* variant: a segment also holds its end time
RECURSIVE ChordScanClosed(_, _, _)
ChordScanClosed(chord_index, k, t) ==
    IF k > Len(chord_index) THEN "N"
    ELSE IF chord_index[k].t_start <= t /\ t <= chord_index[k].t_end
         THEN chord_index[k].label
    ELSE IF chord_index[k].t_start > t THEN "N"
    ELSE ChordScanClosed(chord_index, k + 1, t)

\* the chord scan of one frame, from the k-th segment of chord_index on
RECURSIVE ChordScan(_, _, _)
ChordScan(chord_index, k, t) ==
    IF k > Len(chord_index) THEN "N"
    ELSE IF chord_index[k].t_start <= t /\ t < chord_index[k].t_end
         THEN chord_index[k].label
    ELSE IF chord_index[k].t_start > t THEN "N"
    ELSE ChordScan(chord_index, k + 1, t)

\* variant: a word that ends at the frame time is skipped
RECURSIVE WordScanStrict(_, _, _)
WordScanStrict(all_words, k, t) ==
    IF k > Len(all_words) THEN <<>>
    ELSE IF all_words[k].end <= t THEN WordScanStrict(all_words, k + 1, t)
    ELSE IF all_words[k].start >= t + FRAME_RESOLUTION THEN <<>>
    ELSE <<all_words[k].word>> \o WordScanStrict(all_words, k + 1, t)

\* the word scan of one frame, from the k-th word of all_words on
RECURSIVE WordScan(_, _, _)
WordScan(all_words, k, t) ==
    IF k > Len(all_words) THEN <<>>
    ELSE IF all_words[k].end < t THEN WordScan(all_words, k + 1, t)
    ELSE IF all_words[k].start >= t + FRAME_RESOLUTION THEN <<>>
    ELSE <<all_words[k].word>> \o WordScan(all_words, k + 1, t)

\* " ".join(frame_words)
RECURSIVE Join(_)
Join(words) ==
    IF words = <<>> THEN <<>>
    ELSE IF Len(words) = 1 THEN words[1]
    ELSE words[1] \o <<" ">> \o Join(Tail(words))

\* str.strip()
RECURSIVE LStrip(_)
LStrip(txt) == IF txt # <<>> /\ Head(txt) = " " THEN LStrip(Tail(txt)) ELSE txt
RECURSIVE RStrip(_)
RStrip(txt) ==
    IF txt # <<>> /\ txt[Len(txt)] = " "
    THEN RStrip(SubSeq(txt, 1, Len(txt) - 1)) ELSE txt
Strip(txt) == RStrip(LStrip(txt))

\* num_frames = int(duration_sec / FRAME_RESOLUTION) + 1
NumFrames(duration) == (duration \div FRAME_RESOLUTION) + 1

\* one element of frames, for grid index i
Frame(session_id, i, audio_features, tempo_result, key_result, chord_segments, transcript_segments) ==
    LET t == i * FRAME_RESOLUTION
        beat_times == StableSort(tempo_result.beat_times, tempo_result.beat_times)
        chord_index == StableSort(chord_segments,
                           [k \in 1..Len(chord_segments) |-> chord_segments[k].t_start])
        frame_words == WordScan(AllWords(transcript_segments), 1, t)
    IN [session_id |-> session_id,
        t |-> t,
        audio |-> FeatureAt(audio_features, t),
        music |-> [chord |-> ChordScan(chord_index, 1, t),
                   key |-> <<key_result.key_label, Prefix(key_result.key_scale, 3)>>,
                   bpm |-> tempo_result.tempo_bpm,
                   beat |-> HasBeat(beat_times, t)],
        speech |-> [text_partial |-> Strip(Join(frame_words)),
                    words |-> frame_words]]

build_perception_frames(session_id, duration, audio_features, tempo_result, key_result, chord_segments, transcript_segments) ==
    [n \in 1..NumFrames(duration) |->
        Frame(session_id, n - 1, audio_features, tempo_result, key_result,
              chord_segments, transcript_segments)]

----------------------------------------------------------------------------
(***************************************************************************)
(* AlignerWorker (aligner/worker.py).  One action per awaited call of      *)
(* process() and _build_and_store_frames(); what runs between two awaits   *)
(* belongs to the action of the earlier await.  json.dumps / json.loads    *)
(* of these lists, dicts, numbers and strings give the value back, so the  *)
(* hash holds the values themselves.  The EXPIRE after a write leaves the  *)
(* hash as it is and is part of the write before it.  Row locks of the     *)
(* database only delay a statement: a DELETE removes the rows that were    *)
(* committed when it ran (READ COMMITTED).                                 *)
(***************************************************************************)
\* payloads of the music worker: with per-frame features, and with none
MusicFull ==
    [features |-> <<[t |-> 0, rms |-> 5, spectral_centroid |-> 9],
                    [t |-> 250, rms |-> 6, spectral_centroid |-> 8]>>,
     tempo |-> [beat_times |-> <<300, 100>>, tempo_bpm |-> 120],
     key |-> [key_label |-> "C", key_scale |-> <<"m", "a", "j", "o", "r">>],
     chords |-> <<[t_start |-> 250, t_end |-> 500, label |-> "G"],
                  [t_start |-> 0, t_end |-> 250, label |-> "C"]>>]
MusicBare == [MusicFull EXCEPT !.features = <<>>]
\* json.loads("{}") read through the .get(..., default) calls of the fusion
EmptyMusic ==
    [features |-> <<>>,
     tempo |-> [beat_times |-> <<>>, tempo_bpm |-> 0],
     key |-> [key_label |-> "", key_scale |-> <<>>],
     chords |-> <<>>]
\* payload of an 'asr_final' message: the transcript segments
FinalTranscript ==
    <<[words |-> <<[word |-> <<" ", "h", "i">>, start |-> 0, end |-> 200],
                   [word |-> <<"y", "o">>, start |-> 200, end |-> 400]>>]>>
\* payload of the 'asr' partial published as the id-th message
Partial(id) == [segment |-> id]

AlignInputs(id) ==
    {[source |-> "music", payload |-> MusicFull],
     [source |-> "music", payload |-> MusicBare],
     [source |-> "asr", payload |-> Partial(id)],
     [source |-> "asr_final", payload |-> FinalTranscript]}
AlignSessions == {"s1"}

AlMsg(c) == astream[coord[c].msg]
AlSession(c) == AlMsg(c).session_id
Goto(c, pc) == coord' = [coord EXCEPT ![c].pc = pc]

\* publish("sap:align:pending", {session_id, source, payload}) of an analysis worker
Publish(session_id, in) ==
    /\ Len(astream) < MaxAlign
    /\ astream' = Append(astream, [session_id |-> session_id,
                                   source |-> in.source, payload |-> in.payload])
    /\ UNCHANGED <<alLast, alPel, tracker, dbStatus, dbDuration, dbFrames,
                   resultsLog, coord, fusionLog, partialsIn>>
    /\ UNCHANGED <<rtButStatus, statusLog, plVars, recordLog>>

\* xreadgroup(">", count=1) and the dispatch on source at the top of process()
AlRead(c) ==
    /\ coord[c].pc = "idle"
    /\ alLast < Len(astream)
    /\ alLast' = alLast + 1
    /\ alPel' = alPel \cup {alLast + 1}
    /\ LET source == astream[alLast + 1].source
       IN coord' = [coord EXCEPT ![c].msg = alLast + 1,
                       ![c].pc = CASE source = "music" -> "hset_music"
                                   [] source = "asr" -> "hget_partials"
                                   [] source = "asr_final" -> "hset_asr_final"
                                   [] OTHER -> "check_music"]
    /\ UNCHANGED <<astream, tracker, dbStatus, dbDuration, dbFrames,
                   resultsLog, fusionLog, partialsIn>>
    /\ UNCHANGED <<rtButStatus, statusLog, plVars, recordLog>>

\* what every accumulator step leaves alone
AlKeep == UNCHANGED <<astream, alLast, alPel, dbStatus, dbDuration, dbFrames,
                      resultsLog, rtButStatus, statusLog,
                      plVars, recordLog>>

\* hset(tracker_key, "music", json.dumps(payload))
HsetMusic(c) ==
    /\ coord[c].pc = "hset_music"
    /\ tracker' = [tracker EXCEPT ![AlSession(c)].music = Some(AlMsg(c).payload)]
    /\ Goto(c, "hset_music_received")
    /\ UNCHANGED <<fusionLog, partialsIn>> /\ AlKeep

\* hset(tracker_key, "music_received", "1"); expire
HsetMusicReceived(c) ==
    /\ coord[c].pc = "hset_music_received"
    /\ tracker' = [tracker EXCEPT ![AlSession(c)].music_received = Some("1")]
    /\ Goto(c, "check_music")
    /\ UNCHANGED <<fusionLog, partialsIn>> /\ AlKeep

\* existing = hget(tracker_key, "asr_partials")
HgetPartials(c) ==
    /\ coord[c].pc = "hget_partials"
    /\ coord' = [coord EXCEPT ![c].existing = tracker[AlSession(c)].asr_partials,
                              ![c].pc = "hset_partials"]
    /\ UNCHANGED <<tracker, fusionLog, partialsIn>> /\ AlKeep

\* partials.append(payload); hset(tracker_key, "asr_partials", ...); expire
HsetPartials(c) ==
    /\ coord[c].pc = "hset_partials"
    /\ LET existing == coord[c].existing
           partials == IF existing # Nil THEN existing[1] ELSE <<>>
       IN tracker' = [tracker EXCEPT ![AlSession(c)].asr_partials =
                                        Some(Append(partials, AlMsg(c).payload))]
    /\ partialsIn' = [partialsIn EXCEPT ![AlSession(c)] = @ \cup {coord[c].msg}]
    /\ coord' = [coord EXCEPT ![c].existing = Nil, ![c].pc = "check_music"]
    /\ UNCHANGED fusionLog /\ AlKeep

\* hset(tracker_key, "asr_final", json.dumps(payload))
HsetAsrFinal(c) ==
    /\ coord[c].pc = "hset_asr_final"
    /\ tracker' = [tracker EXCEPT ![AlSession(c)].asr_final = Some(AlMsg(c).payload)]
    /\ Goto(c, "hset_asr_final_received")
    /\ UNCHANGED <<fusionLog, partialsIn>> /\ AlKeep

\* hset(tracker_key, "asr_final_received", "1"); expire
HsetAsrFinalReceived(c) ==
    /\ coord[c].pc = "hset_asr_final_received"
    /\ tracker' = [tracker EXCEPT ![AlSession(c)].asr_final_received = Some("1")]
    /\ Goto(c, "check_music")
    /\ UNCHANGED <<fusionLog, partialsIn>> /\ AlKeep

\* music_received = hget(tracker_key, "music_received")
CheckMusic(c) ==
    /\ coord[c].pc = "check_music"
    /\ coord' = [coord EXCEPT ![c].music_received = tracker[AlSession(c)].music_received,
                              ![c].pc = "check_asr_final"]
    /\ UNCHANGED <<tracker, fusionLog, partialsIn>> /\ AlKeep

\* both flags are in the hash
Ready(session_id) ==
    /\ tracker[session_id].music_received # Nil
    /\ tracker[session_id].asr_final_received # Nil

\* variant: one flag is enough
EitherReceived(music_received, asr_final_received) ==
    music_received # Nil \/ asr_final_received # Nil

\* if music_received and asr_final_received
BothReceived(music_received, asr_final_received) ==
    music_received # Nil /\ asr_final_received # Nil

\* asr_final_received = hget(...); if music_received and asr_final_received:
\* _build_and_store_frames is entered, else process() returns
CheckAsrFinal(c) ==
    /\ coord[c].pc = "check_asr_final"
    /\ LET asr_final_received == tracker[AlSession(c)].asr_final_received
       IN IF BothReceived(coord[c].music_received, asr_final_received)
          THEN /\ coord' = [coord EXCEPT ![c].music_received = Nil,
                                         ![c].pc = "fu_hget_music"]
               /\ fusionLog' = Append(fusionLog,
                                  [session_id |-> AlSession(c), msg |-> coord[c].msg,
                                   ready |-> Ready(AlSession(c))])
          ELSE /\ coord' = [coord EXCEPT ![c].music_received = Nil, ![c].pc = "ack"]
               /\ UNCHANGED fusionLog
    /\ UNCHANGED <<tracker, partialsIn>> /\ AlKeep

\* music_data = json.loads(await client.hget(tracker_key, "music") or "{}")
FuHgetMusic(c) ==
    /\ coord[c].pc = "fu_hget_music"
    /\ LET music == tracker[AlSession(c)].music
       IN coord' = [coord EXCEPT ![c].music_data = IF music # Nil THEN music[1] ELSE EmptyMusic,
                                 ![c].pc = "fu_hget_asr_final"]
    /\ UNCHANGED <<tracker, fusionLog, partialsIn>> /\ AlKeep

\* asr_data = json.loads(await client.hget(tracker_key, "asr_final") or "[]")
FuHgetAsrFinal(c) ==
    /\ coord[c].pc = "fu_hget_asr_final"
    /\ LET asr_final == tracker[AlSession(c)].asr_final
       IN coord' = [coord EXCEPT ![c].asr_data = IF asr_final # Nil THEN asr_final[1] ELSE <<>>,
                                 ![c].pc = "fu_duration"]
    /\ UNCHANGED <<tracker, fusionLog, partialsIn>> /\ AlKeep

\* duration_sec: the recorded one, else estimated from the last feature
DurationOf(recorded, music_data) ==
    IF recorded = 0 /\ music_data.features # <<>>
    THEN music_data.features[Len(music_data.features)].t + FRAME_RESOLUTION
    ELSE recorded

\* variant: a session without a duration is given frames for one grid step
FuDurationDefault(c) ==
    /\ coord[c].pc = "fu_duration"
    /\ LET music_data == coord[c].music_data
           duration_sec == DurationOf(dbDuration[AlSession(c)], music_data)
           used == IF duration_sec = 0 THEN FRAME_RESOLUTION ELSE duration_sec
       IN coord' = [coord EXCEPT
                  ![c].duration_sec = used,
                  ![c].frames = build_perception_frames(AlSession(c), used,
                                    music_data.features, music_data.tempo,
                                    music_data.key, music_data.chords,
                                    coord[c].asr_data),
                  ![c].music_data = Nil, ![c].asr_data = Nil,
                  ![c].pc = "tx_delete"]
    /\ UNCHANGED <<tracker, fusionLog, partialsIn>> /\ AlKeep

\* session = await db.get(AudioSession, sid); the estimate; the early return
\* when there is no duration; build_perception_frames
FuDuration(c) ==
    /\ coord[c].pc = "fu_duration"
    /\ LET music_data == coord[c].music_data
           duration_sec == DurationOf(dbDuration[AlSession(c)], music_data)
       IN IF duration_sec = 0
          THEN coord' = [coord EXCEPT ![c].music_data = Nil, ![c].asr_data = Nil,
                                      ![c].pc = "ack"]
          ELSE coord' = [coord EXCEPT
                  ![c].duration_sec = duration_sec,
                  ![c].frames = build_perception_frames(AlSession(c), duration_sec,
                                    music_data.features, music_data.tempo,
                                    music_data.key, music_data.chords,
                                    coord[c].asr_data),
                  ![c].music_data = Nil, ![c].asr_data = Nil,
                  ![c].pc = "tx_delete"]
    /\ UNCHANGED <<tracker, fusionLog, partialsIn>> /\ AlKeep

\* await db.execute(delete(PerceptionFrame).where(session_id == sid))
TxDelete(c) ==
    /\ coord[c].pc = "tx_delete"
    /\ coord' = [coord EXCEPT ![c].deleted = {b.by : b \in dbFrames[AlSession(c)]},
                              ![c].pc = "tx_commit"]
    /\ UNCHANGED <<tracker, fusionLog, partialsIn>> /\ AlKeep

\* variant: the accumulator is deleted as soon as the frames are committed
TxCommitCleanup(c) ==
    /\ coord[c].pc = "tx_commit"
    /\ dbFrames' = [dbFrames EXCEPT ![AlSession(c)] =
                       {b \in @ : b.by \notin coord[c].deleted}
                          \cup {[by |-> coord[c].msg, frames |-> coord[c].frames]}]
    /\ dbStatus' = [dbStatus EXCEPT ![AlSession(c)] = "completed"]
    /\ dbDuration' = [dbDuration EXCEPT ![AlSession(c)] = coord[c].duration_sec]
    /\ coord' = [coord EXCEPT ![c].deleted = {}, ![c].duration_sec = 0,
                              ![c].pc = "publish_results"]
    /\ tracker' = [tracker EXCEPT ![AlSession(c)] = NoTracker]
    /\ UNCHANGED <<astream, alLast, alPel, resultsLog, fusionLog, partialsIn>>
    /\ recordLog' = Append(recordLog, [session_id |-> AlSession(c), status |-> "completed"])
    /\ UNCHANGED <<rtButStatus, statusLog, plVars>>

\* db.add(...) of every frame; update(AudioSession) status, duration_sec; commit
TxCommit(c) ==
    /\ coord[c].pc = "tx_commit"
    /\ dbFrames' = [dbFrames EXCEPT ![AlSession(c)] =
                       {b \in @ : b.by \notin coord[c].deleted}
                          \cup {[by |-> coord[c].msg, frames |-> coord[c].frames]}]
    /\ dbStatus' = [dbStatus EXCEPT ![AlSession(c)] = "completed"]
    /\ dbDuration' = [dbDuration EXCEPT ![AlSession(c)] = coord[c].duration_sec]
    /\ coord' = [coord EXCEPT ![c].deleted = {}, ![c].duration_sec = 0,
                              ![c].pc = "publish_results"]
    /\ UNCHANGED <<astream, alLast, alPel, tracker, resultsLog, fusionLog, partialsIn>>
    /\ recordLog' = Append(recordLog, [session_id |-> AlSession(c), status |-> "completed"])
    /\ UNCHANGED <<rtButStatus, statusLog, plVars>>

\* variant: the summary counts the grid steps between the frames
PublishResultsSteps(c) ==
    /\ coord[c].pc = "publish_results"
    /\ resultsLog' = Append(resultsLog,
                        [session_id |-> AlSession(c),
                         frame |-> [frame_count |-> Len(coord[c].frames) - 1],
                         is_final |-> "true"])
    /\ coord' = [coord EXCEPT ![c].frames = <<>>, ![c].pc = "publish_completed"]
    /\ UNCHANGED <<astream, alLast, alPel, tracker, dbStatus, dbDuration, dbFrames,
                   fusionLog, partialsIn>>
    /\ UNCHANGED <<rtButStatus, statusLog, plVars, recordLog>>

\* publish("sap:results:stream", {session_id, frame: {"frame_count": n}, is_final})
PublishResults(c) ==
    /\ coord[c].pc = "publish_results"
    /\ resultsLog' = Append(resultsLog,
                        [session_id |-> AlSession(c),
                         frame |-> [frame_count |-> Len(coord[c].frames)],
                         is_final |-> "true"])
    /\ coord' = [coord EXCEPT ![c].frames = <<>>, ![c].pc = "publish_completed"]
    /\ UNCHANGED <<astream, alLast, alPel, tracker, dbStatus, dbDuration, dbFrames,
                   fusionLog, partialsIn>>
    /\ UNCHANGED <<rtButStatus, statusLog, plVars, recordLog>>

\* await self.update_session_status(session_id, "completed")
PublishCompleted(c) ==
    /\ coord[c].pc = "publish_completed"
    /\ statusLog' = Append(statusLog, StatusEntry(AlSession(c), "completed", 0))
    /\ Goto(c, "delete_tracker")
    /\ UNCHANGED <<astream, alLast, alPel, tracker, dbStatus, dbDuration, dbFrames,
                   resultsLog, fusionLog, partialsIn>>
    /\ UNCHANGED <<rtButStatus, plVars, recordLog>>

\* await client.delete(tracker_key)
DeleteTracker(c) ==
    /\ coord[c].pc = "delete_tracker"
    /\ tracker' = [tracker EXCEPT ![AlSession(c)] = NoTracker]
    /\ partialsIn' = [partialsIn EXCEPT ![AlSession(c)] = {}]
    /\ Goto(c, "ack")
    /\ UNCHANGED fusionLog /\ AlKeep

\* process() returned: xack, delete of the retry counter (_handle_message)
AlAck(c) ==
    /\ coord[c].pc = "ack"
    /\ alPel' = alPel \ {coord[c].msg}
    /\ coord' = [coord EXCEPT ![c] = IdleCoord]
    /\ UNCHANGED <<astream, alLast, tracker, dbStatus, dbDuration, dbFrames,
                   resultsLog, fusionLog, partialsIn>>
    /\ UNCHANGED <<rtButStatus, statusLog, plVars, recordLog>>

NextAligner(cs) ==
    \/ \E s \in AlignSessions, in \in AlignInputs(Len(astream) + 1) : Publish(s, in)
    \/ \E c \in cs : AlRead(c)
    \/ \E c \in cs : HsetMusic(c)
    \/ \E c \in cs : HsetMusicReceived(c)
    \/ \E c \in cs : HgetPartials(c)
    \/ \E c \in cs : HsetPartials(c)
    \/ \E c \in cs : HsetAsrFinal(c)
    \/ \E c \in cs : HsetAsrFinalReceived(c)
    \/ \E c \in cs : CheckMusic(c)
    \/ \E c \in cs : CheckAsrFinal(c)
    \/ \E c \in cs : FuHgetMusic(c)
    \/ \E c \in cs : FuHgetAsrFinal(c)
    \/ \E c \in cs : FuDuration(c)
    \/ \E c \in cs : TxDelete(c)
    \/ \E c \in cs : TxCommit(c)
    \/ \E c \in cs : PublishResults(c)
    \/ \E c \in cs : PublishCompleted(c)
    \/ \E c \in cs : DeleteTracker(c)
    \/ \E c \in cs : AlAck(c)

\* positions inside _build_and_store_frames
FusionSteps == {"fu_hget_music", "fu_hget_asr_final", "fu_duration", "tx_delete",
                "tx_commit", "publish_results", "publish_completed",
                "delete_tracker"}

\* The awaited call of a fusion step raises (log service or database out of
\* reach): an open transaction is rolled back by its `async with`, the
\* exception leaves _build_and_store_frames and process(), and
\* _handle_message leaves the message unacknowledged.
AlFail(c) ==
    /\ coord[c].pc \in FusionSteps
    /\ FaultCount
    /\ coord' = [coord EXCEPT ![c] = IdleCoord]
    /\ UNCHANGED <<astream, alLast, alPel, tracker, dbStatus, dbDuration, dbFrames,
                   resultsLog, fusionLog, partialsIn>>
    /\ UNCHANGED <<rtVars, plVars, recordLog, wlive, gwVars, fnVars>>

InitCoordinator == InitRuntime /\ InitAligner /\ InitStages /\ InitRelay /\ InitNoCall

\* one aligner instance
NextCoordinator == NextAligner({1})
SpecCoordinator == InitCoordinator /\ [][NextCoordinator]_vars

\* one aligner instance whose fusion steps can fail
NextFusionRun ==
    \/ NextAligner({1})
    \/ \E c \in {1} : AlFail(c)
SpecFusionRun == InitCoordinator /\ [][NextFusionRun]_vars

\* two aligner instances of the consumer group
NextCoordinators == NextAligner(Coords)
SpecCoordinators == InitCoordinator /\ [][NextCoordinators]_vars

----------------------------------------------------------------------------
(***************************************************************************)
(* The stages around the aligner.  A stage whose handler touches one       *)
(* shared object is one action: delivery, the handler and the              *)
(* acknowledgement.  PreprocessWorker.process publishes five times and is  *)
(* one action per publish.                                                 *)
(***************************************************************************)
PipeSessions == {"s1"}
HasNext(q) == taken[q] < Len(pending[q])
NextOf(q) == pending[q][taken[q] + 1]
Enqueue(q, session_id) == pending' = [pending EXCEPT ![q] = Append(@, session_id)]
Take(q) == taken' = [taken EXCEPT ![q] = @ + 1]

\* the aligner's variables that only the aligner writes
AlOwn == <<alLast, alPel, tracker, dbDuration, dbFrames, resultsLog, coord,
           fusionLog, partialsIn>>

\* POST /sessions/{session_id}/upload (routes/upload.py)
UploadAudio(session_id) ==
    /\ dbStatus[session_id] \in {"created", "uploading"}
    /\ Len(pending["sap:preprocess:pending"]) < MaxUploads
    /\ dbStatus' = [dbStatus EXCEPT ![session_id] = "uploading"]
    /\ recordLog' = Append(recordLog, [session_id |-> session_id, status |-> "uploading"])
    /\ Enqueue("sap:preprocess:pending", session_id)
    /\ UNCHANGED <<astream, AlOwn, taken, pp, rtButStatus, statusLog>>

\* PreprocessWorker: delivery of the next message
PpRead ==
    /\ pp.pc = "idle"
    /\ HasNext("sap:preprocess:pending")
    /\ Take("sap:preprocess:pending")
    /\ pp' = [pc |-> "preprocessing", session_id |-> NextOf("sap:preprocess:pending")]
    /\ UNCHANGED <<astream, dbStatus, AlOwn, pending, recordLog, rtButStatus, statusLog>>

\* await self.update_session_status(session_id, "preprocessing")
PpPreprocessing ==
    /\ pp.pc = "preprocessing"
    /\ statusLog' = Append(statusLog, StatusEntry(pp.session_id, "preprocessing", 0))
    /\ pp' = [pp EXCEPT !.pc = "publish_asr"]
    /\ UNCHANGED <<astream, dbStatus, AlOwn, pending, taken, recordLog, rtButStatus>>

\* one publish of the fan-out
PpPublish(pc, q, next) ==
    /\ pp.pc = pc
    /\ Enqueue(q, pp.session_id)
    /\ pp' = [pp EXCEPT !.pc = next]
    /\ UNCHANGED <<astream, dbStatus, AlOwn, taken, recordLog, rtButStatus, statusLog>>

\* await self.publish("sap:asr:pending", msg_data)
PpPublishAsr == PpPublish("publish_asr", "sap:asr:pending", "publish_music")
\* await self.publish("sap:music:pending", msg_data)
PpPublishMusic == PpPublish("publish_music", "sap:music:pending", "publish_flamingo")
\* await self.publish("sap:flamingo:pending", msg_data)
PpPublishFlamingo == PpPublish("publish_flamingo", "sap:flamingo:pending", "analyzing")

\* await self.update_session_status(session_id, "analyzing"); the handler returns
PpAnalyzing ==
    /\ pp.pc = "analyzing"
    /\ statusLog' = Append(statusLog, StatusEntry(pp.session_id, "analyzing", 0))
    /\ pp' = NoPreprocess
    /\ UNCHANGED <<astream, dbStatus, AlOwn, pending, taken, recordLog, rtButStatus>>

\* publish("sap:align:pending", ...) of a stage
ToAligner(session_id, source, payload) ==
    Append(astream, [session_id |-> session_id, source |-> source, payload |-> payload])

\* MusicAnalysisWorker.process: publishes the 'music' result
MusicWorker ==
    /\ HasNext("sap:music:pending")
    /\ Len(astream) < MaxAlign
    /\ Take("sap:music:pending")
    /\ astream' = ToAligner(NextOf("sap:music:pending"), "music", MusicFull)
    /\ UNCHANGED <<dbStatus, AlOwn, pending, pp, recordLog, rtButStatus, statusLog>>

\* VoxstralWorker.process: publishes 'asr_final', or hands the message to the
\* Whisper fallback stream when the transcription service raises
VoxstralWorker(ok) ==
    /\ HasNext("sap:asr:pending")
    /\ Take("sap:asr:pending")
    /\ IF ok
       THEN /\ Len(astream) < MaxAlign
            /\ astream' = ToAligner(NextOf("sap:asr:pending"), "asr_final", FinalTranscript)
            /\ UNCHANGED pending
       ELSE /\ Enqueue("sap:asr:whisper:pending", NextOf("sap:asr:pending"))
            /\ UNCHANGED astream
    /\ UNCHANGED <<dbStatus, AlOwn, pp, recordLog, rtButStatus, statusLog>>

\* ASRWorker.process: publishes an 'asr' partial per streaming segment (one
\* segment here), then 'asr_final'
ASRWorker ==
    /\ HasNext("sap:asr:whisper:pending")
    /\ Len(astream) + 2 <= MaxAlign
    /\ Take("sap:asr:whisper:pending")
    /\ LET session_id == NextOf("sap:asr:whisper:pending")
       IN astream' = Append(ToAligner(session_id, "asr", Partial(Len(astream) + 1)),
                            [session_id |-> session_id, source |-> "asr_final",
                             payload |-> FinalTranscript])
    /\ UNCHANGED <<dbStatus, AlOwn, pending, pp, recordLog, rtButStatus, statusLog>>

\* FlamingoWorker.process returns: the analyses are stored
FlamingoWorker ==
    /\ HasNext("sap:flamingo:pending")
    /\ Take("sap:flamingo:pending")
    /\ UNCHANGED <<astream, dbStatus, AlOwn, pending, pp, recordLog, rtButStatus, statusLog>>

\* FlamingoWorker.process raised on every attempt: _handle_message escalates
\* the message (SpecWorker has the steps) and publishes 'failed'
FlamingoDeadLetter ==
    /\ HasNext("sap:flamingo:pending")
    /\ Take("sap:flamingo:pending")
    /\ statusLog' = Append(statusLog, StatusEntry(NextOf("sap:flamingo:pending"), "failed", 0))
    /\ UNCHANGED <<astream, dbStatus, AlOwn, pending, pp, recordLog, rtButStatus>>

\* POST /tts with body.session_id of an existing session (routes/tts.py)
TtsRequest(session_id) ==
    /\ Len(pending["sap:tts:pending"]) < MaxTts
    /\ Enqueue("sap:tts:pending", session_id)
    /\ UNCHANGED <<astream, dbStatus, AlOwn, taken, pp, recordLog, rtButStatus, statusLog>>

\* TTSWorker.process: 'tts_complete' after the synthesis, 'tts_failed' when
\* the synthesis raises
TTSWorker(ok) ==
    /\ HasNext("sap:tts:pending")
    /\ Take("sap:tts:pending")
    /\ statusLog' = Append(statusLog,
                       StatusEntry(NextOf("sap:tts:pending"),
                                   IF ok THEN "tts_complete" ELSE "tts_failed", 0))
    /\ UNCHANGED <<astream, dbStatus, AlOwn, pending, pp, recordLog, rtButStatus>>

NextPipeline ==
    \/ \E s \in PipeSessions : UploadAudio(s)
    \/ PpRead
    \/ PpPreprocessing
    \/ PpPublishAsr
    \/ PpPublishMusic
    \/ PpPublishFlamingo
    \/ PpAnalyzing
    \/ MusicWorker
    \/ \E ok \in BOOLEAN : VoxstralWorker(ok)
    \/ ASRWorker
    \/ FlamingoWorker
    \/ FlamingoDeadLetter
    \/ \E s \in PipeSessions : TtsRequest(s)
    \/ \E ok \in BOOLEAN : TTSWorker(ok)
    \/ \E c \in {1} : AlRead(c)
    \/ \E c \in {1} : HsetMusic(c)
    \/ \E c \in {1} : HsetMusicReceived(c)
    \/ \E c \in {1} : HgetPartials(c)
    \/ \E c \in {1} : HsetPartials(c)
    \/ \E c \in {1} : HsetAsrFinal(c)
    \/ \E c \in {1} : HsetAsrFinalReceived(c)
    \/ \E c \in {1} : CheckMusic(c)
    \/ \E c \in {1} : CheckAsrFinal(c)
    \/ \E c \in {1} : FuHgetMusic(c)
    \/ \E c \in {1} : FuHgetAsrFinal(c)
    \/ \E c \in {1} : FuDuration(c)
    \/ \E c \in {1} : TxDelete(c)
    \/ \E c \in {1} : TxCommit(c)
    \/ \E c \in {1} : PublishResults(c)
    \/ \E c \in {1} : PublishCompleted(c)
    \/ \E c \in {1} : DeleteTracker(c)
    \/ \E c \in {1} : AlAck(c)

\* every session exists (routes/sessions.py), nothing is uploaded yet
InitPipeline ==
    InitRuntime /\ InitAlignerWith("created") /\ InitStages /\ InitRelay /\ InitNoCall

SpecPipeline == InitPipeline /\ [][NextPipeline]_vars

----------------------------------------------------------------------------
(***************************************************************************)
(* WebSocketManager (services/audio_gateway/ws_manager.py): the registry   *)
(* of connections and the relay task.  The relay task is a coroutine: it   *)
(* is suspended at an await whenever another coroutine runs, so relay.pc   *)
(* names the call it is awaiting and one action is the code from the       *)
(* return of that call to the next await.                                  *)
(***************************************************************************)
notRelay == <<rtVars, alVars, plVars, recordLog, ftVars, fnVars>>

\* the "type" of the ws_msg built from an entry of each stream
WsType(stream) ==
    CASE stream = "sap:session:status" -> "status"
      [] stream = "sap:results:stream" -> "frame"
      [] stream = "sap:tts:complete" -> "tts_complete"
      [] OTHER -> "unknown"

\* the fields of a stream entry besides session_id, as the relay reads them
\* (decode_responses=True: every value is a str); Nil is a field that is not
\* there.  A frame field is a text, kept as its sequence of characters.
RelayData(status, error, frame, is_final, minio_key, voice, audio_size_bytes) ==
    [status |-> status, error |-> error, frame |-> frame, is_final |-> is_final,
     minio_key |-> minio_key, voice |-> voice,
     audio_size_bytes |-> audio_size_bytes]

\* data.get(key, default)
Get(field, default) == IF field = Nil THEN default ELSE field[1]

\* JSON values: a number, or an object with its members in order
JsonNumber(n) == [kind |-> "number", n |-> n, members |-> <<>>]
JsonObject(members) == [kind |-> "object", n |-> 0, members |-> members]
EmptyObject == JsonObject(<<>>)
JsonFail == [ok |-> FALSE, value |-> Nil]
JsonOk(v) == [ok |-> TRUE, value |-> v]

DigitValue(ch) ==
    CASE ch = "0" -> 0 [] ch = "1" -> 1 [] ch = "2" -> 2 [] ch = "3" -> 3
      [] ch = "4" -> 4 [] ch = "5" -> 5 [] ch = "6" -> 6 [] ch = "7" -> 7
      [] ch = "8" -> 8 [] ch = "9" -> 9 [] OTHER -> -1
IsNumberText(txt) ==
    /\ txt # <<>>
    /\ \A i \in 1..Len(txt) : DigitValue(txt[i]) >= 0
    /\ Len(txt) > 1 => txt[1] # "0"
RECURSIVE NumberValue(_)
NumberValue(txt) ==
    IF txt = <<>> THEN 0
    ELSE NumberValue(SubSeq(txt, 1, Len(txt) - 1)) * 10 + DigitValue(txt[Len(txt)])
\* the index of the quote that closes the string opened at index 1, 0 if none
CloseQuote(txt) ==
    LET ps == {i \in 2..Len(txt) : txt[i] = "\""}
    IN IF ps = {} THEN 0 ELSE CHOOSE i \in ps : \A j \in ps : i <= j

\* json.loads on the part of JSON the entries of the model are written in:
\* non-negative integers and objects of at most one member whose key has no
\* escape, with blanks between the tokens.  ok = FALSE stands for
\* JSONDecodeError.
RECURSIVE JsonLoads(_)
JsonLoads(text) ==
    LET txt == Strip(text)
    IN IF IsNumberText(txt) THEN JsonOk(JsonNumber(NumberValue(txt)))
       ELSE IF Len(txt) < 2 \/ txt[1] # "{" \/ txt[Len(txt)] # "}" THEN JsonFail
       ELSE LET inner == Strip(SubSeq(txt, 2, Len(txt) - 1))
            IN IF inner = <<>> THEN JsonOk(EmptyObject)
               ELSE IF inner[1] # "\"" \/ CloseQuote(inner) = 0 THEN JsonFail
               ELSE LET q == CloseQuote(inner)
                        key == SubSeq(inner, 2, q - 1)
                        rest == LStrip(SubSeq(inner, q + 1, Len(inner)))
                    IN IF rest = <<>> \/ rest[1] # ":" THEN JsonFail
                       ELSE LET v == JsonLoads(Tail(rest))
                            IN IF v.ok
                               THEN JsonOk(JsonObject(<<[key |-> key, value |-> v.value]>>))
                               ELSE JsonFail

\* variant: any non-empty is_final field counts as true
IsFinalTruthy(field) == Get(field, "false") # ""

\* data.get("is_final", "false") == "true"
IsFinal(field) == Get(field, "false") = "true"

\* frame_data = data.get("frame", "{}"); json.loads, {} on JSONDecodeError
FrameData(field) ==
    LET parsed == JsonLoads(Get(field, <<"{", "}">>))
    IN IF parsed.ok THEN parsed.value ELSE EmptyObject

\* the ws_msg built from an entry of each stream
WsMsg(stream, session_id, data) ==
    CASE stream = "sap:session:status" ->
            [type |-> "status", session_id |-> session_id,
             status |-> Get(data.status, ""), error |-> Get(data.error, "")]
      [] stream = "sap:results:stream" ->
            [type |-> "frame", session_id |-> session_id,
             is_final |-> IsFinal(data.is_final),
             data |-> FrameData(data.frame)]
      [] stream = "sap:tts:complete" ->
            [type |-> "tts_complete", session_id |-> session_id,
             minio_key |-> Get(data.minio_key, ""),
             voice |-> Get(data.voice, ""),
             audio_size_bytes |-> Get(data.audio_size_bytes, "0")]
      [] OTHER -> [type |-> "unknown", data |-> data]

\* json.dumps({"frame_count": 3})
SummaryText == <<"{", "\"", "f", "r", "a", "m", "e", "_", "c", "o", "u", "n", "t", "\"", ":", " ", "3", "}">>
\* what the aligner, the workers' runtime and the TTS worker publish (the TTS
\* worker names its voice fields voice_mode and voice_id)
ProducerData(stream) ==
    CASE stream = "sap:session:status" ->
            RelayData(Some("completed"), Some(""), Nil, Nil, Nil, Nil, Nil)
      [] stream = "sap:results:stream" ->
            RelayData(Nil, Nil, Some(SummaryText), Some("true"), Nil, Nil, Nil)
      [] OTHER ->
            RelayData(Nil, Nil, Nil, Nil, Some("tts/s1.wav"), Nil, Some("1024"))

\* aligner, stages and TTS worker append to the streams the relay reads
RPublish(stream, sid) ==
    /\ Len(rin) < MaxRelayMsgs
    /\ rin' = Append(rin, [stream |-> stream, session_id |-> sid,
                           data |-> ProducerData(stream)])
    /\ UNCHANGED <<rlast, rpel, conns, regKeys, sock, rrunning, relay, wsLog, rsnap, rdone>>
    /\ UNCHANGED notRelay

\* positions of audio_websocket at which the connection is registered
Live == {"confirm", "open", "pong"}

\* what `await websocket.receive_text()` brings: the client has gone
\* (WebSocketDisconnect), a text json.loads turns into a dict whose type is
\* "ping", a text it turns into another dict, a text it raises on
ClientEvents == {"gone", "ping", "other", "garbage"}

\* variant: the connection is registered first and accept() awaited after
\* that, so the relay can run before the confirmation is handed to the socket
WsConnectBeforeAccept(ws) ==
    /\ sock[ws] = "new"
    /\ sock' = [sock EXCEPT ![ws] = "accept"]
    /\ conns' = [conns EXCEPT ![RouteOf[ws]] = @ \cup {ws}]
    /\ regKeys' = regKeys \cup {RouteOf[ws]}
    /\ UNCHANGED <<rin, rlast, rpel, rrunning, relay, wsLog, rsnap, rdone>>
    /\ UNCHANGED notRelay

\* audio_websocket: accept, then ws_manager.connect(session_key, websocket);
\* the confirmation `await websocket.send_json({"type": "connected", ...})`
\* is under way
WsConnect(ws) ==
    /\ sock[ws] = "new"
    /\ sock' = [sock EXCEPT ![ws] = "confirm"]
    /\ conns' = [conns EXCEPT ![RouteOf[ws]] = @ \cup {ws}]
    /\ regKeys' = regKeys \cup {RouteOf[ws]}
    /\ UNCHANGED <<rin, rlast, rpel, rrunning, relay, wsLog, rsnap, rdone>>
    /\ UNCHANGED notRelay

\* audio_websocket: finally: ws_manager.disconnect(session_key, websocket):
\* discard(ws) on the defaultdict entry (which creates an absent key), then
\* `if not self._connections[session_id]: del self._connections[session_id]`
WsDisconnect(ws) ==
    /\ sock' = [sock EXCEPT ![ws] = "closed"]
    /\ conns' = [conns EXCEPT ![RouteOf[ws]] = @ \ {ws}]
    /\ regKeys' = IF conns'[RouteOf[ws]] = {} THEN regKeys \ {RouteOf[ws]}
                  ELSE regKeys \cup {RouteOf[ws]}
    /\ UNCHANGED <<rin, rlast, rpel, rrunning, relay, wsLog, rsnap, rdone>>
    /\ UNCHANGED notRelay

\* the endpoint stays where it is or moves on, the registry as it was
WsGoTo(ws, pos) ==
    /\ sock' = [sock EXCEPT ![ws] = pos]
    /\ UNCHANGED <<rin, rlast, rpel, conns, regKeys, rrunning, relay, wsLog, rsnap, rdone>>
    /\ UNCHANGED notRelay

\* variant: the confirmation is sent outside the try, so a send that raises
\* ends the endpoint without disconnect()
WsConfirmUnguarded(ws, ok) ==
    /\ sock[ws] = "confirm"
    /\ WsGoTo(ws, IF ok THEN "open" ELSE "closed")

\* the send of the confirmation returns, and receive_text() is awaited, or
\* it raises (the client has gone) and the finally clause runs
WsConfirm(ws, ok) ==
    /\ sock[ws] = "confirm"
    /\ IF ok THEN WsGoTo(ws, "open") ELSE WsDisconnect(ws)

\* data = await websocket.receive_text(); msg = json.loads(data);
\* if msg.get("type") == "ping": await websocket.send_json({"type": "pong"}).
\* WebSocketDisconnect breaks the loop; what json.loads raises is no
\* WebSocketDisconnect and leaves through the finally clause as well.
WsReceive(ws, ev) ==
    /\ sock[ws] = "open"
    /\ CASE ev = "ping" -> WsGoTo(ws, "pong")
         [] ev = "other" -> WsGoTo(ws, "open")
         [] OTHER -> WsDisconnect(ws)

\* the send of the pong returns, and receive_text() is awaited again, or it
\* raises and the finally clause runs
WsPong(ws, ok) ==
    /\ sock[ws] = "pong"
    /\ IF ok THEN WsGoTo(ws, "open") ELSE WsDisconnect(ws)

\* start(): self._running = True; create_task(self._relay_loop())
RStart ==
    /\ relay.pc = "idle"
    /\ rrunning' = TRUE
    /\ relay' = [relay EXCEPT !.pc = "created"]
    /\ UNCHANGED <<rin, rlast, rpel, conns, regKeys, sock, wsLog, rsnap, rdone>>
    /\ UNCHANGED notRelay

\* the task's first step: from_url(...), up to the first xgroup_create
RBegin ==
    /\ relay.pc = "created"
    /\ relay' = [relay EXCEPT !.pc = "groups"]
    /\ UNCHANGED <<rin, rlast, rpel, conns, regKeys, sock, rrunning, wsLog, rsnap, rdone>>
    /\ UNCHANGED notRelay

\* `while self._running:` with the locals of the last pass dropped
LoopTest ==
    IF rrunning THEN [IdleRelay EXCEPT !.pc = "read"]
    ELSE [IdleRelay EXCEPT !.pc = "aclose"]

\* the groups are created at id "0" on the three streams (BUSYGROUP ignored)
RGroups ==
    /\ relay.pc = "groups"
    /\ relay' = LoopTest
    /\ UNCHANGED <<rin, rlast, rpel, conns, regKeys, sock, rrunning, wsLog, rsnap, rdone>>
    /\ UNCHANGED notRelay

\* variant: the entries of a stream come newest first
NewOfNewestFirst(stream) ==
    LET up == Prefix(SeqOfSet({i \in 1..Len(rin) :
                                  i > rlast[stream] /\ rin[i].stream = stream}),
                     RelayCount)
    IN [k \in 1..Len(up) |-> up[Len(up) + 1 - k]]

\* XREADGROUP ... STREAMS <stream> > COUNT 10: the ids of one stream
NewOf(stream) ==
    Prefix(SeqOfSet({i \in 1..Len(rin) : i > rlast[stream] /\ rin[i].stream = stream}),
           RelayCount)

\* `for stream_name, messages in result: for msg_id, data in messages:`
RECURSIVE ReadAll(_)
ReadAll(k) ==
    IF k > Len(RelayStreams) THEN <<>>
    ELSE NewOf(RelayStreams[k]) \o ReadAll(k + 1)

\* variant: broadcast() sends to the connections of every session
StartOnAll(i, rest) ==
    LET sid == rin[i].session_id
        snap == UNION {conns[x] : x \in DOMAIN conns}
    IN IF sid = ""
       THEN /\ relay' = [pc |-> "ack_empty", batch |-> rest, cur |-> i,
                         todo |-> {}, dead |-> {}]
            /\ UNCHANGED <<rsnap, rdone>>
       ELSE /\ rsnap' = [rsnap EXCEPT ![i] = Some(conns[sid])]
            /\ IF snap = {}
               THEN /\ relay' = [pc |-> "ack", batch |-> rest, cur |-> i,
                                 todo |-> {}, dead |-> {}]
                    /\ rdone' = rdone \cup {i}
               ELSE /\ relay' = [pc |-> "send", batch |-> rest, cur |-> i,
                                 todo |-> snap, dead |-> {}]
                    /\ UNCHANGED rdone

\* The loop body on entry i with `rest` left of the batch, up to its first
\* await: the xack of an entry without session_id; or broadcast(), which
\* copies the session's set and awaits the first send; or, the set being
\* empty, broadcast() returns at once and the xack of line 138 is awaited.
StartOn(i, rest) ==
    LET sid == rin[i].session_id
        snap == conns[sid]
    IN IF sid = ""
       THEN /\ relay' = [pc |-> "ack_empty", batch |-> rest, cur |-> i,
                         todo |-> {}, dead |-> {}]
            /\ UNCHANGED <<rsnap, rdone>>
       ELSE /\ rsnap' = [rsnap EXCEPT ![i] = Some(snap)]
            /\ IF snap = {}
               THEN /\ relay' = [pc |-> "ack", batch |-> rest, cur |-> i,
                                 todo |-> {}, dead |-> {}]
                    /\ rdone' = rdone \cup {i}
               ELSE /\ relay' = [pc |-> "send", batch |-> rest, cur |-> i,
                                 todo |-> snap, dead |-> {}]
                    /\ UNCHANGED rdone

\* the for-loops go on with the batch, or the while test follows
GoOn(rest) ==
    IF rest = <<>>
    THEN relay' = LoopTest /\ UNCHANGED <<rsnap, rdone>>
    ELSE StartOn(Head(rest), Tail(rest))

\* result = await client.xreadgroup(group, consumer, {s: ">" ...}, count=10, block=1000)
RRead ==
    /\ relay.pc = "read"
    /\ LET batch == ReadAll(1)
       IN /\ rlast' = [st \in RelayStreamSet |->
                         IF NewOf(st) = <<>> THEN rlast[st]
                         ELSE NewOf(st)[Len(NewOf(st))]]
          /\ rpel' = rpel \cup {batch[k] : k \in 1..Len(batch)}
          /\ GoOn(batch)
    /\ UNCHANGED <<rin, conns, regKeys, sock, rrunning, wsLog>>
    /\ UNCHANGED notRelay

\* if not session_id: await client.xack(stream_name, group, msg_id); continue
RAckEmpty ==
    /\ relay.pc = "ack_empty"
    /\ rpel' = rpel \ {relay.cur}
    /\ GoOn(relay.batch)
    /\ UNCHANGED <<rin, rlast, conns, regKeys, sock, rrunning, wsLog>>
    /\ UNCHANGED notRelay

\* variant: broadcast() gives up on the first send that raises
RSendAbort(ws, ok) ==
    /\ relay.pc = "send"
    /\ ws \in relay.todo
    /\ sock[ws] \in Live \/ ~ok
    /\ LET i == relay.cur
           sid == rin[i].session_id
           todo == IF ok THEN relay.todo \ {ws} ELSE {}
           dead == IF ok THEN relay.dead ELSE relay.dead \cup {ws}
       IN /\ wsLog' = Append(wsLog, [ws |-> ws, id |-> i, type |-> WsType(rin[i].stream),
                                     msg |-> WsMsg(rin[i].stream, sid, rin[i].data),
                                     session_id |-> sid, ok |-> ok])
          /\ IF todo = {}
             THEN /\ conns' = [conns EXCEPT ![sid] = @ \ dead]
                  /\ regKeys' = IF dead = {} THEN regKeys ELSE regKeys \cup {sid}
                  /\ relay' = [relay EXCEPT !.pc = "ack", !.todo = {}, !.dead = {}]
                  /\ rdone' = rdone \cup {i}
             ELSE /\ relay' = [relay EXCEPT !.todo = todo, !.dead = dead]
                  /\ UNCHANGED <<conns, regKeys, rdone>>
    /\ UNCHANGED <<rin, rlast, rpel, sock, rrunning, rsnap>>
    /\ UNCHANGED notRelay

\* broadcast(): `await ws.send_json(message)` on one socket of the copy; ok
\* is FALSE when the call raises an Exception, as it does on a socket whose
\* route has ended.  After the last socket of the copy the dead ones are
\* discarded from the registry, broadcast() returns and xack is awaited.
RSend(ws, ok) ==
    /\ relay.pc = "send"
    /\ ws \in relay.todo
    /\ sock[ws] \in Live \/ ~ok
    /\ LET i == relay.cur
           sid == rin[i].session_id
           todo == relay.todo \ {ws}
           dead == IF ok THEN relay.dead ELSE relay.dead \cup {ws}
       IN /\ wsLog' = Append(wsLog, [ws |-> ws, id |-> i, type |-> WsType(rin[i].stream),
                                     msg |-> WsMsg(rin[i].stream, sid, rin[i].data),
                                     session_id |-> sid, ok |-> ok])
          /\ IF todo = {}
             THEN /\ conns' = [conns EXCEPT ![sid] = @ \ dead]
                  /\ regKeys' = IF dead = {} THEN regKeys ELSE regKeys \cup {sid}
                  /\ relay' = [relay EXCEPT !.pc = "ack", !.todo = {}, !.dead = {}]
                  /\ rdone' = rdone \cup {i}
             ELSE /\ relay' = [relay EXCEPT !.todo = todo, !.dead = dead]
                  /\ UNCHANGED <<conns, regKeys, rdone>>
    /\ UNCHANGED <<rin, rlast, rpel, sock, rrunning, rsnap>>
    /\ UNCHANGED notRelay

\* variant: the entry is acknowledged only when some client received it
RAckIfDelivered ==
    /\ relay.pc = "ack"
    /\ rpel' = IF \E k \in 1..Len(wsLog) : wsLog[k].id = relay.cur /\ wsLog[k].ok
               THEN rpel \ {relay.cur} ELSE rpel
    /\ GoOn(relay.batch)
    /\ UNCHANGED <<rin, rlast, conns, regKeys, sock, rrunning, wsLog>>
    /\ UNCHANGED notRelay

\* await client.xack(stream_name, group, msg_id)
RAck ==
    /\ relay.pc = "ack"
    /\ rpel' = rpel \ {relay.cur}
    /\ GoOn(relay.batch)
    /\ UNCHANGED <<rin, rlast, conns, regKeys, sock, rrunning, wsLog>>
    /\ UNCHANGED notRelay

\* stop(): self._running = False; self._relay_task.cancel(); await the task.
\* CancelledError is raised in the task at the await it is suspended at.
\* Inside the try of the loop (the read, a send inside broadcast(), an xack)
\* it is not an Exception, so broadcast() does not catch it, and the loop's
\* `except asyncio.CancelledError: break` leads to aclose().  Before the
\* loop, and in the sleep of the `except Exception` branch, the task ends
\* with it.
RStop ==
    /\ rrunning
    /\ rrunning' = FALSE
    /\ relay' = IF relay.pc \in {"created", "groups", "backoff"}
                THEN [relay EXCEPT !.pc = "cancelled"]
                ELSE [relay EXCEPT !.pc = "aclose"]
    /\ UNCHANGED <<rin, rlast, rpel, conns, regKeys, sock, wsLog, rsnap, rdone>>
    /\ UNCHANGED notRelay

\* await client.aclose()
RAclose ==
    /\ relay.pc = "aclose"
    /\ relay' = [relay EXCEPT !.pc = "closed"]
    /\ UNCHANGED <<rin, rlast, rpel, conns, regKeys, sock, rrunning, wsLog, rsnap, rdone>>
    /\ UNCHANGED notRelay

NextRelay ==
    \/ \E stream \in RelayStreamSet, sid \in RelaySessions : RPublish(stream, sid)
    \/ \E ws \in Sockets : WsConnect(ws)
    \/ \E ws \in Sockets, ok \in BOOLEAN : WsConfirm(ws, ok)
    \/ \E ws \in Sockets, ev \in ClientEvents : WsReceive(ws, ev)
    \/ \E ws \in Sockets, ok \in BOOLEAN : WsPong(ws, ok)
    \/ RStart
    \/ RBegin
    \/ RGroups
    \/ RRead
    \/ RAckEmpty
    \/ \E ws \in Sockets, ok \in BOOLEAN : RSend(ws, ok)
    \/ RAck
    \/ RStop
    \/ RAclose

\* The xreadgroup or an xack of the loop raises (log service out of reach):
\* `except Exception` logs it and awaits sleep(1); the batch the loop was
\* walking is a local of the pass that ended.
RFault ==
    /\ relay.pc \in {"read", "ack", "ack_empty"}
    /\ FaultCount
    /\ relay' = [IdleRelay EXCEPT !.pc = "backoff"]
    /\ UNCHANGED <<rin, rlast, rpel, conns, regKeys, sock, rrunning, wsLog, rsnap, rdone>>
    /\ UNCHANGED <<rtVars, alVars, plVars, recordLog, wlive, fnVars>>

\* await asyncio.sleep(1) returns: back to `while self._running`
RBackoff ==
    /\ relay.pc = "backoff"
    /\ relay' = LoopTest
    /\ UNCHANGED <<rin, rlast, rpel, conns, regKeys, sock, rrunning, wsLog, rsnap, rdone>>
    /\ UNCHANGED notRelay

InitGateway == InitRuntime /\ InitAligner /\ InitStages /\ InitRelay /\ InitNoCall

SpecRelay == InitGateway /\ [][NextRelay]_vars

\* the relay with a client of session s1 and a client of session s2, and
\* entries of both sessions
InitRoutes ==
    /\ InitRuntime /\ InitAligner /\ InitStages /\ InitNoCall
    /\ rin = <<>>
    /\ rlast = [st \in RelayStreamSet |-> 0]
    /\ rpel = {}
    /\ conns = [sid \in Sessions |-> {}]
    /\ regKeys = {}
    /\ sock = [ws \in TwoRoutes |-> "new"]
    /\ rrunning = FALSE
    /\ relay = IdleRelay
    /\ wsLog = <<>>
    /\ rsnap = [i \in 1..MaxRelayMsgs |-> Nil]
    /\ rdone = {}

NextRoutes ==
    \/ \E stream \in RelayStreamSet, sid \in Sessions : RPublish(stream, sid)
    \/ \E ws \in TwoRoutes : WsConnect(ws)
    \/ \E ws \in TwoRoutes, ok \in BOOLEAN : WsConfirm(ws, ok)
    \/ \E ws \in TwoRoutes, ev \in ClientEvents : WsReceive(ws, ev)
    \/ \E ws \in TwoRoutes, ok \in BOOLEAN : WsPong(ws, ok)
    \/ RStart
    \/ RBegin
    \/ RGroups
    \/ RRead
    \/ \E ws \in TwoRoutes, ok \in BOOLEAN : RSend(ws, ok)
    \/ RAck

SpecRoutes == InitRoutes /\ [][NextRoutes]_vars

\* the relay with calls to the log service that raise
NextRelayFaulty ==
    \/ NextRelay
    \/ RFault
    \/ RBackoff
SpecRelayFaulty == InitGateway /\ [][NextRelayFaulty]_vars

\* Entries the relay can find on its streams: fields present or not, frame
\* texts that are JSON and texts that are not.
FrameTexts ==
    {SummaryText, <<"{", "}">>, <<"7">>, <<"{", "\"", "a", "\"", ":", " ", "{", "}", "}">>,
     <<>>, <<"{", "\"", "f", "r", "a", "m", "e", "_", "c", "o", "u", "n", "t", "\"", ":", " ", "3">>, <<"o", "o", "p", "s">>}
OptionalOf(values) == {Nil} \cup {Some(v) : v \in values}
PayloadEntries ==
    {[stream |-> "sap:session:status", session_id |-> sid,
      data |-> RelayData(st, er, Nil, Nil, Nil, Nil, Nil)] :
        sid \in RelaySessions,
        st \in OptionalOf({"completed", "failed"}),
        er \in OptionalOf({"", "Exceeded 3 retries"})}
    \cup
    {[stream |-> "sap:results:stream", session_id |-> sid,
      data |-> RelayData(Nil, Nil, fr, fi, Nil, Nil, Nil)] :
        sid \in RelaySessions,
        fr \in OptionalOf(FrameTexts),
        fi \in OptionalOf({"true", "false", "True", ""})}
    \cup
    {[stream |-> "sap:tts:complete", session_id |-> sid,
      data |-> RelayData(Nil, Nil, Nil, Nil, mk, vo, Some("1024"))] :
        sid \in RelaySessions,
        mk \in OptionalOf({"tts/s1.wav"}),
        vo \in OptionalOf({"clone"})}

\* one such entry is on its stream when the gateway starts
InitPayload ==
    /\ InitRuntime /\ InitAligner /\ InitStages /\ InitNoCall
    /\ \E e \in PayloadEntries : rin = <<e>>
    /\ rlast = [st \in RelayStreamSet |-> 0]
    /\ rpel = {}
    /\ conns = [sid \in Sessions |-> {}]
    /\ regKeys = {}
    /\ sock = [ws \in Sockets |-> "new"]
    /\ rrunning = FALSE
    /\ relay = IdleRelay
    /\ wsLog = <<>>
    /\ rsnap = [i \in 1..MaxRelayMsgs |-> Nil]
    /\ rdone = {}

NextPayload ==
    \/ \E ws \in Sockets : WsConnect(ws)
    \/ RStart
    \/ RBegin
    \/ RGroups
    \/ RRead
    \/ RAckEmpty
    \/ \E ws \in Sockets, ok \in BOOLEAN : RSend(ws, ok)
    \/ RAck

SpecPayload == InitPayload /\ [][NextPayload]_vars


----------------------------------------------------------------------------
(***************************************************************************)
(* Calls of build_perception_frames on arguments drawn from bounded sets:  *)
(* a first call, then a second call on the same values with the chord      *)
(* segments, the words and the beat times listed in any order.  A frame's  *)
(* chord depends on the chord segments only, its words on the transcript   *)
(* only, its beat flag on the beat times only, so the arguments vary one   *)
(* list at a time.                                                         *)
(***************************************************************************)
notFusion == <<rtVars, alVars, plVars, recordLog, ftVars, gwVars>>

SeqsUpTo(S, n) == UNION {[1..k -> S] : k \in 0..n}

\* durations in ms: every multiple of 50 ms up to MaxGrid grid steps, and
\* six seconds
Durations == {50 * k : k \in 1..(5 * MaxGrid)} \cup {6000}

\* chord segments as the music worker lists them: (t_start, t_end, label)
Segments ==
    {cs \in [t_start : {0, 300, 500}, t_end : {0, 300, 500}, label : {"C", "G"}] :
        cs.t_end > cs.t_start}
ChordLists ==
    SeqsUpTo(Segments, MaxList)
        \cup {<<[t_start |-> 0, t_end |-> 2000, label |-> "C"],
                [t_start |-> 2000, t_end |-> 5000, label |-> "G"]>>}

\* words of a transcript segment: (word, start, end), end >= start
Words ==
    {w \in [word : {<<"a">>, <<" ", "b">>}, start : {0, 300}, end : {0, 300}] :
        w.end >= w.start}
WordLists == SeqsUpTo(Words, MaxList)

BeatLists == SeqsUpTo({0, 100, 300}, MaxList) \cup {<<100, 600, 1100>>}

FusionArgs(duration, chords, words, beats) ==
    [session_id |-> "s1",
     duration_sec |-> duration,
     audio_features |-> MusicFull.features,
     tempo_result |-> [beat_times |-> beats, tempo_bpm |-> MusicFull.tempo.tempo_bpm],
     key_result |-> MusicFull.key,
     chord_segments |-> chords,
     transcript_segments |-> <<[words |-> words]>>]

\* a transcript of two segments, the later word listed first
TwoSegments ==
    <<[words |-> <<[word |-> <<"a">>, start |-> 300, end |-> 300]>>],
      [words |-> <<[word |-> <<" ", "b">>, start |-> 0, end |-> 300]>>]>>

FusionInputs ==
    {FusionArgs(d, cs, <<>>, <<>>) : d \in Durations, cs \in ChordLists}
        \cup {FusionArgs(d, <<>>, ws, <<>>) : d \in Durations, ws \in WordLists}
        \cup {FusionArgs(d, <<>>, <<>>, bs) : d \in Durations, bs \in BeatLists}
        \cup {[FusionArgs(d, <<>>, <<>>, <<>>) EXCEPT !.transcript_segments = TwoSegments] :
                 d \in Durations}

\* build_perception_frames(**args)
Built(args) ==
    build_perception_frames(args.session_id, args.duration_sec, args.audio_features,
                            args.tempo_result, args.key_result, args.chord_segments,
                            args.transcript_segments)

\* the same list in another order
Perms(n) == {p \in [1..n -> 1..n] : \A i, j \in 1..n : p[i] = p[j] => i = j}
Permute(xs, p) == [k \in 1..Len(xs) |-> xs[p[k]]]

NoCalls == [first |-> Nil, again |-> Nil]

InitFusion ==
    /\ InitRuntime /\ InitAligner /\ InitStages /\ InitRelay
    /\ fin \in FusionInputs
    /\ fout = NoCalls

\* frames = build_perception_frames(...)
FnCall ==
    /\ fout.first = Nil
    /\ fout' = [fout EXCEPT !.first = Some(Built(fin))]
    /\ UNCHANGED fin
    /\ UNCHANGED notFusion

\* a second call, the three lists in the order given by pc, pw and pb
FnCallAgain(pc, pw, pb) ==
    /\ fout.first # Nil
    /\ fout.again = Nil
    /\ LET args == [fin EXCEPT
                      !.chord_segments = Permute(@, pc),
                      !.transcript_segments[1].words = Permute(@, pw),
                      !.tempo_result.beat_times = Permute(@, pb)]
       IN fout' = [fout EXCEPT !.again = Some([args |-> args, frames |-> Built(args)])]
    /\ UNCHANGED fin
    /\ UNCHANGED notFusion

\* the second call, in any order of the lists
Recall ==
    \E pc \in Perms(Len(fin.chord_segments)),
       pw \in Perms(Len(fin.transcript_segments[1].words)),
       pb \in Perms(Len(fin.tempo_result.beat_times)) : FnCallAgain(pc, pw, pb)

NextFusion ==
    \/ FnCall
    \/ Recall

SpecFusion == InitFusion /\ [][NextFusion]_vars


----------------------------------------------------------------------------
(***************************************************************************)
(* Claims about the worker runtime.                                        *)
(***************************************************************************)
IsPoison(m) == m <= Len(wstream) /\ wstream[m].poison
Delivered(m) == m <= lastDelivered
Acked(m) == Delivered(m) /\ pel[m] = NoName
DlqCount(m) == Cardinality({i \in 1..Len(dlq) : dlq[i].original_id = m})
InDlq(m) == DlqCount(m) > 0
FailedFor(m) ==
    Cardinality({i \in 1..Len(statusLog) :
                    statusLog[i].status = "failed" /\ statusLog[i].msg = m})
NoneAlive == \A w \in Workers : wpc[w] \in {"dead", "stopped"}
Escalating(m) ==
    \E w \in Workers : wcur[w] = m /\ wpc[w] \in {"dlq_add", "dlq_ack", "dlq_status"}

\* C1: a message whose handler raises on every call and that a failed
\* attempt left unacknowledged has been invoked again once a worker process
\* started since then has finished its recovery pass (so that it reaches
\* MAX_RETRIES invocations), and it is dead-lettered only after exactly
\* MAX_RETRIES failed invocations.
C1_RetryBound ==
    /\ \A w \in Workers :
          wpc[w] \in {"loop", "live_read"} =>
              \A m \in mustRecover[w] \cap retryDue : ~IsPoison(m)
    /\ \A m \in MsgIds :
          (IsPoison(m) /\ InDlq(m)) => failedCnt[m] = MAX_RETRIES

\* C2: when a worker process started after a crash has finished its recovery
\* pass and entered the live loop, every message the crashed process held
\* unacknowledged has been dispatched to the handler again.
C2_CrashRecovery ==
    \A w \in Workers :
        wpc[w] \in {"loop", "live_read"} => mustRecover[w] \cap orphan = {}

C10_FailedOnlyWhenExhausted ==
    /\ \A i \in 1..Len(statusLog) :
          statusLog[i].status = "failed" =>
              \E m \in 1..Len(wstream) :
                  /\ SessionOrUnknown(wstream[m]) = statusLog[i].session_id
                  /\ failedCnt[m] >= MAX_RETRIES
    /\ \A w \in Workers :
          /\ wpc[w] \in {"dlq_add", "dlq_ack", "dlq_status"} =>
                (wattempt[w] >= MAX_RETRIES /\ failedCnt[wcur[w]] >= MAX_RETRIES)
          /\ wpc[w] = "set_attempt" =>
                (wattempt[w] < MAX_RETRIES /\ FailedFor(wcur[w]) = 0)

\* C10 witness: a 'failed' status has been published, and another message
\* has failed fewer than MAX_RETRIES times without one.
C10_Witness ==
    /\ \E i \in 1..Len(statusLog) : statusLog[i].status = "failed"
    /\ \E m \in MsgIds : failedCnt[m] \in 1..(MAX_RETRIES - 1) /\ FailedFor(m) = 0

\* C23: a message the handler can process, left unacknowledged by a failed
\* attempt with its count below MAX_RETRIES, has been dispatched to the
\* handler again once a worker process started after the failure has
\* finished its recovery pass and entered the live loop.
C23_PickedUpAgain ==
    \A w \in Workers, m \in MsgIds :
        (wpc[w] \in {"loop", "live_read"} /\ m \in mustRecover[w] /\ ~IsPoison(m))
            => m \notin retryDue

\* C24: when run() has finished its recovery pass and is at the loop test
\* or at the read of new messages, no message that was pending under this
\* consumer's name when the process started is still waiting to be
\* dispatched to _handle_message.
C24_RecoveryComplete ==
    \A w \in Workers :
        wpc[w] \in {"loop", "live_read"} =>
            \A m \in mustRecover[w] : pel[m] # wname[w]

----------------------------------------------------------------------------
(***************************************************************************)
(* Claims about failures and shutdown of the worker runtime.               *)
(***************************************************************************)
Alive(w) == wpc[w] \notin {"dead", "stopped"}
\* the worker's position changes in the step, and not because the process died
Moves(w) == wpc'[w] # wpc[w] /\ wpc'[w] # "dead"
\* positions of _handle_message
Handling == {"get_attempt", "process", "ack", "del_counter", "dlq_add",
             "dlq_ack", "dlq_status", "set_attempt"}
\* the for-loops go on: the next message of the batch, or the loop test
GoesOn(w) ==
    IF wbatch[w] # <<>>
    THEN /\ wpc'[w] = "get_attempt"
         /\ wcur'[w] = Head(wbatch[w])
         /\ wbatch'[w] = Tail(wbatch[w])
    ELSE wpc'[w] = "loop"

\* C11: when process() raises on a message, in the recovery pass or in the
\* live loop, and no call to the log service raises, the worker goes through
\* the retry or dead-letter path with _running and the rest of its batch
\* untouched, then dispatches the next message of the batch or returns to the
\* loop test, which leads to the next read while _running holds.
C11_LoopSurvives ==
    [][\A w \in Workers :
        /\ (wpc[w] = "process" /\ wpc'[w] \notin {"process", "ack", "dead"})
              => /\ wpc'[w] \in {"set_attempt", "dlq_add"}
                 /\ wrunning'[w] = wrunning[w]
                 /\ wbatch'[w] = wbatch[w] /\ wcur'[w] = wcur[w]
        /\ (wpc[w] = "dlq_add" /\ Moves(w) /\ faults' = faults)
              => wpc'[w] = "dlq_ack" /\ wbatch'[w] = wbatch[w]
        /\ (wpc[w] = "dlq_ack" /\ Moves(w) /\ faults' = faults)
              => wpc'[w] = "dlq_status" /\ wbatch'[w] = wbatch[w]
        /\ (wpc[w] \in {"set_attempt", "dlq_status"} /\ Moves(w) /\ faults' = faults)
              => GoesOn(w) /\ wrunning'[w] = wrunning[w]
        /\ (wpc[w] = "loop" /\ wrunning[w] /\ Moves(w)) => wpc'[w] = "live_read"
      ]_vars

\* the second process, in its recovery pass, has seen process() raise on
\* message 1 and now dispatches message 2 to the handler
C11_Witness ==
    \E w \in Workers :
        /\ starts = 2 /\ faults = 0 /\ ~wlive[w]
        /\ failedCnt[1] = 2
        /\ wcur[w] = 2 /\ wpc[w] = "process"

\* C12: whenever a call to the log service raises while the worker is in the
\* live loop, run() does not end and the loop goes to its back-off sleep, from
\* which it returns to the loop test.
C12_BackOff ==
    [][\A w \in Workers :
        /\ (faults' = faults + 1 /\ wlive[w] /\ Alive(w))
              => wpc'[w] = "backoff" /\ wrunning'[w] = wrunning[w]
        /\ (wpc[w] = "backoff" /\ Moves(w)) => wpc'[w] = "loop"
      ]_vars

\* C13: after a signal cleared _running, the handling of the message in
\* flight goes on to its end, the loop test that sees _running cleared is
\* followed by no read but by the close of the connection, and the worker
\* reaches Stopped (unless the process is killed first).
C13_Drain ==
    /\ [][\A w \in Workers :
            /\ (~wrunning[w] /\ wpc[w] \in Handling /\ Moves(w))
                  => wpc'[w] \in Handling \cup {"loop"}
            /\ (~wrunning[w] /\ wpc[w] = "loop" /\ Moves(w)) => wpc'[w] = "cleanup"
            /\ (wpc[w] = "cleanup" /\ Moves(w)) => wpc'[w] = "stopped"
         ]_vars
    /\ \A w \in Workers :
          (Alive(w) /\ ~wrunning[w]) ~> (wpc[w] \in {"stopped", "dead"})

\* stopped by a signal, by the one process of the run, after it acknowledged
\* a message
C13_Witness ==
    \E w \in Workers :
        /\ wpc[w] = "stopped" /\ ~wrunning[w] /\ starts = 1
        /\ \E m \in MsgIds : m <= lastDelivered /\ pel[m] = NoName

\* C25: when process() returns for message m and the acknowledge and the
\* counter delete that follow return too, the wrapper acknowledges m, then
\* leaves m without a retry counter whatever count was stored, appends
\* nothing to the dead-letter log or the status log, and goes on with the
\* batch.
C25_SuccessPath ==
    [][\A w \in Workers :
        /\ (wpc[w] = "process" /\ wpc'[w] = "ack")
              => /\ wcur'[w] = wcur[w]
                 /\ dlq' = dlq /\ statusLog' = statusLog
        /\ (wpc[w] = "ack" /\ Moves(w) /\ faults' = faults)
              => /\ wpc'[w] = "del_counter" /\ wcur'[w] = wcur[w]
                 /\ pel'[wcur[w]] = NoName
                 /\ dlq' = dlq /\ statusLog' = statusLog
        /\ (wpc[w] = "del_counter" /\ Moves(w) /\ faults' = faults)
              => /\ pel[wcur[w]] = NoName /\ pel' = pel
                 /\ retries'[wcur[w]] = 0
                 /\ dlq' = dlq /\ statusLog' = statusLog
                 /\ GoesOn(w)
      ]_vars

\* process() returned on a message that had failed twice before: its stored
\* count is 2, it is acknowledged and the counter delete is next
C25_Witness ==
    \E w \in Workers :
        /\ wpc[w] = "del_counter" /\ faults = 0
        /\ retries[wcur[w]] = MAX_RETRIES - 1
        /\ pel[wcur[w]] = NoName

\* C26: when process() raises on message m and the stored count plus one
\* (the count is 0 when there is no counter) is below MAX_RETRIES, the
\* wrapper takes the retry path: it stores that new count for m with an
\* expiry and changes nothing else; m stays pending and unacknowledged, the
\* dead-letter log and the status log are left as they were, and the loop
\* goes on with the batch.
C26_RetryStored ==
    [][\A w \in Workers :
        /\ (wpc[w] = "process" /\ wpc'[w] \in {"set_attempt", "dlq_add"})
              => /\ wattempt'[w] = retries[wcur[w]] + 1
                 /\ (wpc'[w] = "set_attempt") = (wattempt'[w] < MAX_RETRIES)
                 /\ pel[wcur[w]] = wname[w]
                 /\ wcur'[w] = wcur[w]
                 /\ <<wstream, lastDelivered, pel, retries, expiry, dlq, statusLog>>'
                      = <<wstream, lastDelivered, pel, retries, expiry, dlq, statusLog>>
        /\ (wpc[w] = "set_attempt" /\ Moves(w) /\ faults' = faults)
              => /\ wattempt[w] < MAX_RETRIES
                 /\ retries' = [retries EXCEPT ![wcur[w]] = wattempt[w]]
                 /\ expiry' = [expiry EXCEPT ![wcur[w]] = RETRY_TTL]
                 /\ <<wstream, lastDelivered, pel, dlq, statusLog>>'
                      = <<wstream, lastDelivered, pel, dlq, statusLog>>
                 /\ GoesOn(w)
      ]_vars

\* process() raised for the second time on a message whose stored count is
\* 1: the new count 2 is about to be stored, the message is pending under
\* the worker's name
C26_Witness ==
    \E w \in Workers :
        /\ wpc[w] = "set_attempt" /\ faults = 0
        /\ retries[wcur[w]] = 1 /\ wattempt[w] = 2
        /\ failedCnt[wcur[w]] = 2
        /\ pel[wcur[w]] = wname[w]

\* C27: _ensure_group on a group that is there leaves the group's cursor and
\* its pending entries as they are and run() goes on to the recovery read;
\* when the group is not there it is made with the cursor at id 0.  At that
\* point of run() no message has been read or dispatched, and a call that
\* raises there ends run() at once, with the group, the cursor, the pending
\* entries and the logs untouched.
C27_Bootstrap ==
    [][\A w \in Workers :
        /\ wpc[w] = "ensure_group"
              => wcur[w] = 0 /\ wbatch[w] = <<>> /\ ~wlive[w]
        /\ (wpc[w] = "ensure_group" /\ Moves(w))
              => /\ wpc'[w] = "recover_read"
                 /\ groupMade'
                 /\ groupMade => (lastDelivered' = lastDelivered /\ pel' = pel)
                 /\ ~groupMade => lastDelivered' = 0
                 /\ wcur'[w] = 0 /\ wbatch'[w] = <<>>
        /\ (wpc[w] = "ensure_group" /\ faults' = faults + 1)
              => /\ wpc'[w] = "dead"
                 /\ <<groupMade, lastDelivered, pel, retries, dlq, statusLog>>'
                      = <<groupMade, lastDelivered, pel, retries, dlq, statusLog>>
      ]_vars

\* a restarted worker has passed _ensure_group on a group whose cursor had
\* moved and that has a pending entry
C27_Witness ==
    \E w \in Workers :
        /\ wpc[w] = "recover_read" /\ starts >= 2
        /\ lastDelivered > 0
        /\ \E m \in MsgIds : pel[m] # NoName

\* C32: a message leaves the pending entries only by the xack of the
\* success path, which the worker reaches only when process() has returned
\* on that message, or by the xack of the dead-letter path, which it reaches
\* only by the step that appended the message's entry to the dead-letter
\* log; the retry path acknowledges nothing.
C32_NoSilentLoss ==
    [][/\ \A m \in MsgIds :
            (pel[m] # NoName /\ pel'[m] = NoName)
                => \E w \in Workers :
                      /\ wcur[w] = m
                      /\ \/ wpc[w] = "ack"
                         \/ wpc[w] = "dlq_ack" /\ InDlq(m)
       /\ \A w \in Workers :
            /\ (wpc'[w] = "ack" /\ wpc[w] # "ack")
                  => /\ wpc[w] = "process"
                     /\ wcur'[w] = wcur[w]
                     /\ wattempt'[w] = wattempt[w]
            /\ (wpc'[w] = "dlq_ack" /\ wpc[w] # "dlq_ack")
                  => /\ wpc[w] = "dlq_add"
                     /\ wcur'[w] = wcur[w]
                     /\ Len(dlq') = Len(dlq) + 1
                     /\ dlq'[Len(dlq')].original_id = wcur[w]
            /\ wpc[w] = "set_attempt" => pel' = pel
      ]_vars

\* one message is acknowledged with its entry on the dead-letter log,
\* another after a failed attempt followed by one on which process() returned
C32_Witness ==
    \E m, n \in MsgIds :
        /\ Acked(m) /\ InDlq(m)
        /\ Acked(n) /\ ~InDlq(n) /\ failedCnt[n] = 1 /\ retries[n] = 0

\* C39: a retry counter that is stored (it has an expiry) holds a value in
\* 1 .. MAX_RETRIES-1, a message without a counter reads as 0, and the
\* attempts field of an entry added to the dead-letter log is the text of the
\* stored count of its message plus one
C39_CounterRange ==
    /\ [](\A m \in DOMAIN retries :
             IF expiry[m] = 0 THEN retries[m] = 0
             ELSE retries[m] \in 1..(MAX_RETRIES - 1))
    /\ [][Len(dlq') > Len(dlq) =>
             LET e == dlq'[Len(dlq')]
             IN e.attempts = ToString(retries[e.original_id] + 1)]_vars

\* a message went to the dead-letter log on its third attempt, and its
\* counter still holds the 2 stored after the second
C39_Witness ==
    /\ Len(dlq) >= 1
    /\ dlq[1].attempts = ToString(MAX_RETRIES)
    /\ retries[dlq[1].original_id] = MAX_RETRIES - 1
    /\ expiry[dlq[1].original_id] = RETRY_TTL

----------------------------------------------------------------------------
(***************************************************************************)
(* Claims about the gateway relay.                                         *)
(***************************************************************************)
\* broadcast() has copied the set of entry i's session
Started(i) == rsnap[i] # Nil
\* the calls of send_json made for entry i on socket ws
SendsOf(i, ws) == {k \in 1..Len(wsLog) : wsLog[k].id = i /\ wsLog[k].ws = ws}
\* the relay loop is over
LoopOver == relay.pc \in {"aclose", "closed", "cancelled"}

\* C14: once the relay loop has ended by stop(), every entry whose dispatch
\* had started has been sent to every connection of the set copied for it and
\* is acknowledged: no entry is left partly delivered and pending.
C14_NoCutDispatch ==
    LoopOver =>
        \A i \in 1..Len(rin) :
            Started(i) => /\ i \notin rpel
                          /\ \A ws \in rsnap[i][1] : SendsOf(i, ws) # {}

\* the calls of send_json made for entry i
LogOf(i) == {k \in 1..Len(wsLog) : wsLog[k].id = i}

\* C15: when broadcast() has returned for an entry of session S, each
\* connection that was registered for S when it started has been sent the
\* entry exactly once, and no other connection has; every message sent
\* carries the entry's session and the type of its stream; a connection
\* whose send raised is no longer registered; the relay awaits the xack of
\* the entry.  No connection is ever sent the same entry twice.
C15_FanOut ==
    /\ \A i \in 1..Len(rin), ws \in Sockets : Cardinality(SendsOf(i, ws)) <= 1
    /\ \A i \in rdone :
         LET sid == rin[i].session_id
         IN /\ \A ws \in Sockets :
                 Cardinality(SendsOf(i, ws)) = IF ws \in rsnap[i][1] THEN 1 ELSE 0
            /\ \A k \in LogOf(i) :
                 /\ wsLog[k].session_id = sid
                 /\ wsLog[k].type = WsType(rin[i].stream)
                 /\ ~wsLog[k].ok => wsLog[k].ws \notin conns[sid]
            /\ (relay.cur = i /\ rrunning) => relay.pc = "ack"

\* two connections were registered; the send to the first raised, the send
\* to the second went through, and broadcast() returned
C15_Witness ==
    \E i \in rdone : \E k, l \in LogOf(i) :
        /\ k < l
        /\ ~wsLog[k].ok
        /\ wsLog[l].ok
        /\ wsLog[l].ws \in conns[rin[i].session_id]

\* C16: while the relay has not been stopped, an entry it has read is
\* pending only while it is the entry being handled or waits in the batch
\* just read: once the relay has moved past an entry it is acknowledged,
\* whatever the set of connections was and whatever the sends did.
C16_AckAfterDispatch ==
    rrunning =>
        \A i \in rpel :
            \/ relay.cur = i
            \/ \E k \in 1..Len(relay.batch) : relay.batch[k] = i

\* the relay is running and has moved past two entries, both acknowledged:
\* one found no connection, one had a send that raised
C16_Witness ==
    /\ rrunning
    /\ rpel = {}
    /\ \E i, j \in rdone :
         /\ rsnap[i][1] = {}
         /\ \E k \in LogOf(j) : ~wsLog[k].ok
         /\ relay.cur \notin {i, j}

\* C31: when a connection has been sent two entries of the same session and
\* the same stream and both sends went through, the entry appended first was
\* sent first.  (Entries of different streams may reach it in either order.)
C31_LogOrder ==
    \A k, l \in 1..Len(wsLog) :
        (/\ k < l
         /\ wsLog[k].ws = wsLog[l].ws
         /\ wsLog[k].ok /\ wsLog[l].ok
         /\ rin[wsLog[k].id].stream = rin[wsLog[l].id].stream
         /\ rin[wsLog[k].id].session_id = rin[wsLog[l].id].session_id)
            => wsLog[k].id < wsLog[l].id

\* one connection has received two entries of one stream that the relay
\* read in one batch
C31_Witness ==
    \E k, l \in 1..Len(wsLog) :
        /\ k < l
        /\ wsLog[k].ws = wsLog[l].ws
        /\ wsLog[k].ok /\ wsLog[l].ok
        /\ rin[wsLog[k].id].stream = rin[wsLog[l].id].stream
        /\ wsLog[k].id = 1 /\ wsLog[l].id = 2
        /\ rlast[rin[1].stream] = 2
        /\ relay.cur = 2 /\ relay.pc = "send"

\* C34: whenever the running relay is about to read again, every entry it
\* was handed by an earlier read has been acknowledged: a call that raised
\* has left no entry behind.
C34_NoneStranded ==
    (rrunning /\ relay.pc = "read") => rpel = {}

\* C35: every send of an entry goes to a connection that was registered
\* under the entry's session_id when broadcast() copied the set for that
\* entry, the connection was opened on that session and the payload names
\* that session; the registry holds a connection only under the session it
\* was opened on.  So a connection of one session is never sent a payload
\* of another.
C35_Isolation ==
    /\ \A k \in 1..Len(wsLog) :
          LET i == wsLog[k].id
              ws == wsLog[k].ws
          IN /\ rsnap[i] # Nil
             /\ ws \in rsnap[i][1]
             /\ RouteOf[ws] = rin[i].session_id
             /\ wsLog[k].msg.session_id = RouteOf[ws]
    /\ \A sid \in DOMAIN conns : \A ws \in conns[sid] : RouteOf[ws] = sid

\* both clients are registered and an entry of s1 then an entry of s2 have
\* been sent, each to the client of its session
C35_Witness ==
    /\ conns["s1"] = {"wa"} /\ conns["s2"] = {"wc"}
    /\ Len(wsLog) = 2
    /\ wsLog[1].ws = "wa" /\ wsLog[1].ok /\ wsLog[1].msg.session_id = "s1"
    /\ wsLog[2].ws = "wc" /\ wsLog[2].ok /\ wsLog[2].msg.session_id = "s2"

\* C36: the connection registry has no session id mapped to an empty set of
\* connections, after any sequence of connect, disconnect and broadcast calls
C36_NoEmptyEntry ==
    \A sid \in regKeys : conns[sid] # {}

\* C37: a connection whose endpoint has exited, by whichever way, is in no
\* set of the registry, and a broadcast that starts after the exit does not
\* have the connection in the set it copies and sends to
C37_Unregistered ==
    /\ [](\A ws \in DOMAIN sock :
             sock[ws] = "closed" => \A sid \in DOMAIN conns : ws \notin conns[sid])
    /\ [][\A i \in DOMAIN rsnap :
             rsnap'[i] # rsnap[i] =>
                 \A ws \in DOMAIN sock : sock[ws] = "closed" => ws \notin rsnap'[i][1]]_vars

\* entry 1 was sent to wa; wa's endpoint has exited since, and the broadcast of
\* entry 2 copied and served wb alone
C37_Witness ==
    /\ Len(wsLog) >= 2
    /\ wsLog[1].ws = "wa" /\ wsLog[1].id = 1
    /\ sock["wa"] = "closed"
    /\ rsnap[2] = Some({"wb"})
    /\ 2 \in rdone

\* positions of the endpoint at which send_json of the confirmation has
\* been called
Greeted == Live \cup {"closed"}

\* C38: the confirmation is the first message handed to a new connection: a
\* broadcast copies, and the relay sends on, only connections whose endpoint
\* has already called send_json with the confirmation
C38_ConfirmationFirst ==
    [][/\ \A i \in DOMAIN rsnap :
              rsnap'[i] # rsnap[i] => \A ws \in rsnap'[i][1] : sock[ws] \in Greeted
       /\ Len(wsLog') > Len(wsLog) => sock[wsLog'[Len(wsLog')].ws] \in Greeted]_vars

\* the relay's send on wa returned while the endpoint of wa was still awaiting
\* the send of its confirmation
C38_Witness ==
    /\ Len(wsLog) >= 1
    /\ wsLog[1].ws = "wa" /\ wsLog[1].ok
    /\ sock["wa"] = "confirm"

\* what each frame text of the entries says, written out by hand: Nil for a
\* text that is not JSON
Meaning(text) ==
    CASE text = SummaryText ->
            Some(JsonObject(<<[key |-> <<"f", "r", "a", "m", "e", "_", "c", "o", "u", "n", "t">>,
                               value |-> JsonNumber(3)]>>))
      [] text = <<"{", "}">> -> Some(JsonObject(<<>>))
      [] text = <<"7">> -> Some(JsonNumber(7))
      [] text = <<"{", "\"", "a", "\"", ":", " ", "{", "}", "}">> ->
            Some(JsonObject(<<[key |-> <<"a">>, value |-> JsonObject(<<>>)]>>))
      [] OTHER -> Nil

\* the payload the relay is to build from entry e
Typed(e) ==
    CASE e.stream = "sap:session:status" ->
            [type |-> "status", session_id |-> e.session_id,
             status |-> IF e.data.status = Nil THEN "" ELSE e.data.status[1],
             error |-> IF e.data.error = Nil THEN "" ELSE e.data.error[1]]
      [] e.stream = "sap:results:stream" ->
            [type |-> "frame", session_id |-> e.session_id,
             is_final |-> (e.data.is_final = Some("true")),
             data |-> IF e.data.frame = Nil \/ Meaning(e.data.frame[1]) = Nil
                      THEN JsonObject(<<>>)
                      ELSE Meaning(e.data.frame[1])[1]]
      [] e.stream = "sap:tts:complete" ->
            [type |-> "tts_complete", session_id |-> e.session_id,
             minio_key |-> IF e.data.minio_key = Nil THEN "" ELSE e.data.minio_key[1],
             voice |-> IF e.data.voice = Nil THEN "" ELSE e.data.voice[1],
             audio_size_bytes |-> e.data.audio_size_bytes[1]]

\* C30: every payload handed to a socket is the one its entry's stream calls
\* for: 'status' with the entry's status and error, 'frame' with is_final
\* true exactly for the field 'true' and data the JSON value of the frame
\* text (the empty object when the text is not JSON or the field is not
\* there), 'tts_complete' with the entry's fields.  An entry without
\* session_id is handed to no socket, and is pending only until the
\* acknowledgment the relay issues for it at once.
C30_PayloadTyping ==
    /\ \A k \in 1..Len(wsLog) :
          /\ wsLog[k].msg = Typed(rin[wsLog[k].id])
          /\ rin[wsLog[k].id].session_id # ""
          /\ wsLog[k].ws \in Sockets /\ RouteOf[wsLog[k].ws] = rin[wsLog[k].id].session_id
    /\ \A i \in 1..Len(rin) :
          rin[i].session_id = ""
              => /\ LogOf(i) = {}
                 /\ i \in rpel => (relay.pc = "ack_empty" /\ relay.cur = i)
                 /\ (i <= rlast[rin[i].stream] /\ relay.pc = "read") => i \notin rpel

\* a client has been sent a frame payload whose text was not JSON and whose
\* is_final field was 'True'
C30_Witness ==
    \E k \in 1..Len(wsLog) :
        /\ wsLog[k].ok
        /\ rin[wsLog[k].id].data.frame = Some(<<"{", "\"", "f", "r", "a", "m", "e", "_", "c", "o", "u", "n", "t", "\"", ":", " ", "3">>)
        /\ rin[wsLog[k].id].data.is_final = Some("True")
        /\ wsLog[k].msg.data = JsonObject(<<>>)
        /\ ~wsLog[k].msg.is_final

----------------------------------------------------------------------------
(***************************************************************************)
(* Claims about the aligner.                                               *)
(***************************************************************************)
AlHandled(m) == m <= alLast /\ m \notin alPel
AlOf(session_id, source) ==
    {m \in 1..Len(astream) : astream[m].session_id = session_id
                               /\ astream[m].source = source}
FusionsOf(session_id) ==
    {k \in 1..Len(fusionLog) : fusionLog[k].session_id = session_id}
TheOne(S) == CHOOSE x \in S : TRUE
Later(a, b) == IF a > b THEN a ELSE b
\* the session got exactly one 'music' and one 'asr_final' message, and every
\* message published so far has been handled
OnceEach(session_id) ==
    /\ Cardinality(AlOf(session_id, "music")) = 1
    /\ Cardinality(AlOf(session_id, "asr_final")) = 1
    /\ alLast = Len(astream) /\ alPel = {}
MusicOf(session_id) == astream[TheOne(AlOf(session_id, "music"))].payload
FinalOf(session_id) == astream[TheOne(AlOf(session_id, "asr_final"))].payload
SecondOf(session_id) ==
    Later(TheOne(AlOf(session_id, "music")), TheOne(AlOf(session_id, "asr_final")))
\* what one fusion over the two payloads of the session stores: one row per
\* frame when the duration can be determined, nothing otherwise
SingleFusion(session_id) ==
    LET music_data == MusicOf(session_id)
        duration_sec == DurationOf(0, music_data)
    IN IF duration_sec = 0 THEN {}
       ELSE {build_perception_frames(session_id, duration_sec, music_data.features,
                 music_data.tempo, music_data.key, music_data.chords,
                 FinalOf(session_id))}
\* the stored rows of the session are those of one fusion over its payloads
StoredIsSingleFusion(session_id) ==
    /\ {b.frames : b \in dbFrames[session_id]} = SingleFusion(session_id)
    /\ Cardinality(dbFrames[session_id]) = Cardinality(SingleFusion(session_id))

\* C3: whenever _build_and_store_frames is invoked for a session, both
\* music_received and asr_final_received are set in the session's hash at that
\* moment; and a 'music' and an 'asr_final' message of the session have been
\* delivered before (music alone, asr_final alone or partials never invoke it).
C3_Readiness ==
    \A k \in 1..Len(fusionLog) :
        /\ fusionLog[k].ready
        /\ \E m \in AlOf(fusionLog[k].session_id, "music") : m <= alLast
        /\ \E m \in AlOf(fusionLog[k].session_id, "asr_final") : m <= alLast

\* C4 as stated: one coordinator, one 'music' and one 'asr_final' message of a
\* session, both handled, any partials around them: the fusion step has run
\* exactly once, while the second of the two was handled, and what is stored
\* is what the two payloads give, whichever came first.
C4_ExactlyOnce ==
    \A s \in Sessions : OnceEach(s) =>
        /\ Cardinality(FusionsOf(s)) = 1
        /\ \A k \in FusionsOf(s) : fusionLog[k].msg = SecondOf(s)
        /\ StoredIsSingleFusion(s)

\* C4 amended: under the same premise the fusion step is first invoked while
\* the second of the two is handled and what is stored is what the two
\* payloads give, whichever came first; when the duration can be determined
\* the step runs exactly once and publishes one result, when it cannot the
\* step stores nothing, keeps the hash and runs again on every later message
\* of the session.
C4_OrderIndependent ==
    \A s \in Sessions : OnceEach(s) =>
        LET runs == FusionsOf(s)
            after == {m \in 1..Len(astream) :
                         astream[m].session_id = s /\ m > SecondOf(s)}
        IN /\ runs # {}
           /\ fusionLog[TheOne({k \in runs : \A j \in runs : k <= j})].msg = SecondOf(s)
           /\ StoredIsSingleFusion(s)
           /\ IF DurationOf(0, MusicOf(s)) # 0
              THEN /\ Cardinality(runs) = 1
                   /\ Count(resultsLog, LAMBDA r : r.session_id = s) = 1
                   /\ tracker[s].music = Nil /\ tracker[s].asr_final = Nil
              ELSE /\ {fusionLog[k].msg : k \in runs} = {SecondOf(s)} \cup after
                   /\ Cardinality(runs) = 1 + Cardinality(after)
                   /\ Count(resultsLog, LAMBDA r : r.session_id = s) = 0
                   /\ Ready(s)

\* 'asr_final' first, a partial, then 'music': all handled, frames stored
C4_Witness ==
    /\ OnceEach("s1")
    /\ Len(astream) = 3
    /\ astream[1].source = "asr_final" /\ astream[2].source = "asr"
    /\ astream[3].source = "music"
    /\ dbFrames["s1"] # {}

\* C5: a session with one 'music' and one 'asr_final' message on which the
\* fusion step was invoked twice or more: once every message is handled, the
\* rows stored for the session are those of a single fusion over the two
\* payloads.
C5_IdempotentRefire ==
    \A s \in Sessions :
        (OnceEach(s) /\ Cardinality(FusionsOf(s)) >= 2) => StoredIsSingleFusion(s)

\* C6: every 'asr' partial appended since the session's hash was last deleted,
\* whose handler has returned, is in the list of the hash.
C6_AppendOnly ==
    \A s \in Sessions : \A m \in partialsIn[s] :
        AlHandled(m) =>
            /\ tracker[s].asr_partials # Nil
            /\ \E k \in 1..Len(tracker[s].asr_partials[1]) :
                  tracker[s].asr_partials[1][k] = astream[m].payload

\* the aligner is at the duration step of _build_and_store_frames with no
\* duration in the record and no feature in the music payload it read
NoDuration(c) ==
    /\ coord[c].pc = "fu_duration"
    /\ dbDuration[AlSession(c)] = 0
    /\ coord[c].music_data.features = <<>>

\* C17: when _build_and_store_frames finds no duration, in the record or in
\* the music payload, it returns: the handler goes to the acknowledgment of
\* its message, and neither that step nor the acknowledgment writes a frame,
\* changes the status or the duration of the record, publishes to the results
\* stream or the status stream, or touches the accumulator.
C17_UnknownDuration ==
    [][\A c \in {1} :
         /\ (NoDuration(c) /\ coord'[c] # coord[c]) =>
                /\ coord'[c].pc = "ack"
                /\ UNCHANGED <<dbFrames, dbStatus, dbDuration, resultsLog, statusLog,
                               recordLog, tracker>>
         /\ (coord[c].pc = "ack" /\ coord'[c] # coord[c]) =>
                /\ coord'[c].pc = "idle"
                /\ UNCHANGED <<dbFrames, dbStatus, dbDuration, resultsLog, statusLog,
                               recordLog, tracker>>
      ]_vars

\* a ready session whose fusion was entered and returned for want of a
\* duration: both flags set, nothing stored or published, status as before
C17_Witness ==
    /\ coord[1].pc = "ack"
    /\ Ready("s1")
    /\ fusionLog # <<>>
    /\ fusionLog[Len(fusionLog)].msg = coord[1].msg
    /\ dbDuration["s1"] = 0
    /\ dbFrames["s1"] = {}
    /\ dbStatus["s1"] = "uploading"
    /\ resultsLog = <<>>
    /\ statusLog = <<>>

\* C28: with one aligner instance, a session's accumulator is deleted only
\* by the last step of a fusion run, when that run's frames are committed,
\* the record is 'completed', and its results message and its 'completed'
\* status are the last entries of their logs; that step leaves no accumulator
\* for the session.  When a step of the run raises, the accumulator is left
\* as it was, with both flags set, and the message stays unacknowledged.
C28_DeleteAfterSuccess ==
    [][/\ \A s \in Sessions :
            (tracker[s] # NoTracker /\ tracker'[s] = NoTracker)
                => \E c \in Coords :
                      /\ coord[c].pc = "delete_tracker" /\ coord'[c].pc = "ack"
                      /\ AlSession(c) = s
       /\ \A c \in Coords :
            /\ coord[c].pc = "delete_tracker"
                  => /\ \E b \in dbFrames[AlSession(c)] : b.by = coord[c].msg
                     /\ dbStatus[AlSession(c)] = "completed"
                     /\ resultsLog # <<>>
                     /\ resultsLog[Len(resultsLog)].session_id = AlSession(c)
                     /\ resultsLog[Len(resultsLog)].is_final = "true"
                     /\ statusLog # <<>>
                     /\ statusLog[Len(statusLog)]
                          = StatusEntry(AlSession(c), "completed", 0)
            /\ (coord[c].pc = "delete_tracker" /\ coord'[c].pc = "ack")
                  => tracker'[AlSession(c)] = NoTracker
            /\ (coord[c].pc \in FusionSteps /\ faults' = faults + 1)
                  => /\ tracker' = tracker
                     /\ Ready(AlSession(c))
                     /\ coord[c].msg \in alPel'
                     /\ coord'[c].pc = "idle"
      ]_vars

\* a fusion run failed, the accumulator stayed, and the run a later message
\* set off has reached the delete of the accumulator
C28_Witness ==
    /\ faults = 1
    /\ Len(fusionLog) = 2
    /\ coord[1].pc = "delete_tracker"
    /\ Ready(AlSession(1))

\* the frames the run of coordinator c has committed
StoredBy(c) == {b \in dbFrames[AlSession(c)] : b.by = coord[c].msg}
\* coordinator c goes from position from to position to in the step
Step(c, from, to) == coord[c].pc = from /\ coord'[c].pc = to

\* C29: with one aligner instance, a fusion run that has a duration goes
\* through three steps in this order.  The commit replaces the session's
\* frames by the (at least one) frames of the run and sets the record to
\* 'completed'.  Then one message is appended to the results log, for the
\* session, with is_final = 'true' and frame_count = the number of frames
\* the commit stored.  Then one 'completed' status of the session is
\* appended to the status log.  Nothing is appended to either log in any
\* other step, so a run that stored no frames publishes neither.
C29_RunOrder ==
    [][/\ \A c \in Coords :
            /\ (coord'[c].pc = "publish_results" /\ coord[c].pc # "publish_results")
                  => /\ coord[c].pc = "tx_commit"
                     /\ Len(coord[c].frames) >= 1
                     /\ dbFrames'[AlSession(c)]
                          = {[by |-> coord[c].msg, frames |-> coord[c].frames]}
                     /\ dbStatus'[AlSession(c)] = "completed"
                     /\ coord'[c].frames = coord[c].frames
                     /\ resultsLog' = resultsLog /\ statusLog' = statusLog
            /\ (coord'[c].pc = "publish_completed" /\ coord[c].pc # "publish_completed")
                  => /\ coord[c].pc = "publish_results"
                     /\ \E b \in StoredBy(c) :
                           resultsLog' = Append(resultsLog,
                               [session_id |-> AlSession(c),
                                frame |-> [frame_count |-> Len(b.frames)],
                                is_final |-> "true"])
                     /\ statusLog' = statusLog /\ dbFrames' = dbFrames
            /\ (coord'[c].pc = "delete_tracker" /\ coord[c].pc # "delete_tracker")
                  => /\ coord[c].pc = "publish_completed"
                     /\ statusLog' = Append(statusLog,
                                        StatusEntry(AlSession(c), "completed", 0))
                     /\ resultsLog' = resultsLog /\ dbFrames' = dbFrames
       /\ resultsLog' # resultsLog
            => \E c \in Coords : Step(c, "publish_results", "publish_completed")
       /\ statusLog' # statusLog
            => \E c \in Coords : Step(c, "publish_completed", "delete_tracker")
       /\ dbFrames' # dbFrames
            => \E c \in Coords : Step(c, "tx_commit", "publish_results")
      ]_vars

\* a run has stored three frames and published the summary with
\* frame_count = 3 and the 'completed' status
C29_Witness ==
    /\ coord[1].pc = "delete_tracker"
    /\ \E b \in StoredBy(1) : Len(b.frames) = 3
    /\ resultsLog = <<[session_id |-> "s1", frame |-> [frame_count |-> 3],
                       is_final |-> "true"]>>
    /\ statusLog = <<StatusEntry("s1", "completed", 0)>>

\* C33: every accumulator that has music_received set holds the music
\* payload, and every accumulator that has asr_final_received set holds the
\* asr_final payload.
C33_FlagHasPayload ==
    \A s \in Sessions :
        /\ tracker[s].music_received # Nil => tracker[s].music # Nil
        /\ tracker[s].asr_final_received # Nil => tracker[s].asr_final # Nil

----------------------------------------------------------------------------
(***************************************************************************)
(* Claims about build_perception_frames.                                   *)
(***************************************************************************)
\* the calls made so far: arguments and frames returned
Calls ==
    (IF fout.first = Nil THEN {} ELSE {[args |-> fin, frames |-> fout.first[1]]})
        \cup (IF fout.again = Nil THEN {} ELSE {fout.again[1]})

\* two different elements of xs have the same sort key
Tied(xs, keys) ==
    \E i, j \in 1..Len(xs) : i < j /\ keys[i] = keys[j] /\ xs[i] # xs[j]
ChordTies(args) ==
    Tied(args.chord_segments,
         [k \in 1..Len(args.chord_segments) |-> args.chord_segments[k].t_start])
WordTies(args) ==
    LET ws == Flatten([k \in 1..Len(args.transcript_segments) |->
                          args.transcript_segments[k].words])
    IN Tied(ws, [k \in 1..Len(ws) |-> ws[k].start])

\* C18, as stated: a second call of build_perception_frames on the same
\* values, the chord segments, beat times and words listed in the same or in
\* any other order, returns the frames the first call returned.
C18_OrderFree ==
    fout.again # Nil => fout.again[1].frames = fout.first[1]

\* C18, amended: the second call returns the frames of the first when the
\* lists are in the same order, and in any other order provided no two
\* different chord segments have the same t_start and no two different words
\* the same start.
C18_OrderFreeNoTies ==
    (/\ fout.again # Nil
     /\ fout.again[1].args = fin \/ (~ChordTies(fin) /\ ~WordTies(fin)))
         => fout.again[1].frames = fout.first[1]

\* two chord segments with different starts, listed in the other order in
\* the second call, which returned the same frames, some with a chord
C18_Witness ==
    /\ fout.again # Nil
    /\ Len(fin.chord_segments) = 2
    /\ ~ChordTies(fin)
    /\ fout.again[1].args.chord_segments # fin.chord_segments
    /\ fout.again[1].frames = fout.first[1]
    /\ \E n \in 1..Len(fout.first[1]) : fout.first[1][n].music.chord # "N"

\* C21: in every call, a frame's beat flag is true exactly when some beat
\* time b of the call has t <= b < t + G, t being the frame's time.
C21_BeatFlag ==
    \A call \in Calls :
        LET beats == call.args.tempo_result.beat_times
        IN \A n \in 1..Len(call.frames) :
              LET t == call.frames[n].t
              IN call.frames[n].music.beat <=>
                    \E k \in 1..Len(beats) :
                        t <= beats[k] /\ beats[k] < t + FRAME_RESOLUTION

\* beats 0.1, 0.6, 1.1 s: true at t = 0, false at t = 0.25, true at t = 0.5
C21_Witness ==
    /\ fout.first # Nil
    /\ fin.tempo_result.beat_times = <<100, 600, 1100>>
    /\ Len(fout.first[1]) >= 3
    /\ fout.first[1][1].t = 0 /\ fout.first[1][1].music.beat
    /\ fout.first[1][2].t = 250 /\ ~fout.first[1][2].music.beat
    /\ fout.first[1][3].t = 500 /\ fout.first[1][3].music.beat

\* the words of a call's transcript segments, as listed
Listed(args) ==
    Flatten([k \in 1..Len(args.transcript_segments) |->
                args.transcript_segments[k].words])
\* the listed words that overlap the frame at t: end >= t and start < t + G
Overlap(ws, t) ==
    {k \in 1..Len(ws) : ws[k].end >= t /\ ws[k].start < t + FRAME_RESOLUTION}
\* the ways of putting the elements of S in a row
Orders(S) ==
    {o \in [1..Cardinality(S) -> S] :
        \A i, j \in 1..Cardinality(S) : o[i] = o[j] => i = j}
\* the frame's word list is the overlapping words in an order of rising start
ExactWords(frame, ws) ==
    \E o \in Orders(Overlap(ws, frame.t)) :
        /\ \A i, j \in 1..Len(o) : i < j => ws[o[i]].start <= ws[o[j]].start
        /\ frame.speech.words = [k \in 1..Len(o) |-> ws[o[k]].word]

\* C22, as stated: in every call, each frame's word list is exactly the words
\* overlapping the frame, in start order, and text_partial is those words
\* joined by single spaces.
C22_SpeechJoined ==
    \A call \in Calls : \A n \in 1..Len(call.frames) :
        /\ ExactWords(call.frames[n], Listed(call.args))
        /\ call.frames[n].speech.text_partial = Join(call.frames[n].speech.words)

\* C22, amended: the word list is as stated; text_partial is the words joined
\* by single spaces with the white space at both ends of the result removed.
C22_SpeechStripped ==
    \A call \in Calls : \A n \in 1..Len(call.frames) :
        /\ ExactWords(call.frames[n], Listed(call.args))
        /\ call.frames[n].speech.text_partial
              = Strip(Join(call.frames[n].speech.words))

\* a transcript of two segments: the frame at t = 0 has the word of the
\* second segment only, the frame at t = 0.25 has both words, the earlier
\* first, and its text has lost the leading space of the first word
C22_Witness ==
    /\ fout.first # Nil
    /\ fin.transcript_segments = TwoSegments
    /\ Len(fout.first[1]) >= 3
    /\ fout.first[1][1].speech.words = << <<" ", "b">> >>
    /\ fout.first[1][2].speech.words = << <<" ", "b">>, <<"a">> >>
    /\ fout.first[1][2].speech.text_partial = <<"b", " ", "a">>
    /\ fout.first[1][3].speech.words = <<>>

CeilDiv(a, b) == (a + b - 1) \div b

\* C19: a call with duration D returns ceil(D / G) + 1 frames, the i-th
\* (from 0) at time i * G, G being FRAME_RESOLUTION.
C19_FrameCount ==
    \A call \in Calls :
        /\ Len(call.frames) = CeilDiv(call.args.duration_sec, FRAME_RESOLUTION) + 1
        /\ \A n \in 1..Len(call.frames) : call.frames[n].t = (n - 1) * FRAME_RESOLUTION

\* the segments are listed in time order and do not overlap
TimeOrdered(cs) ==
    /\ \A k \in 1..Len(cs) : cs[k].t_start < cs[k].t_end
    /\ \A k \in 1..(Len(cs) - 1) : cs[k].t_end <= cs[k + 1].t_start
Containing(cs, t) == {k \in 1..Len(cs) : cs[k].t_start <= t /\ t < cs[k].t_end}
\* the scan that looks at every segment
RECURSIVE ScanAll(_, _, _)
ScanAll(cs, k, t) ==
    IF k > Len(cs) THEN "N"
    ELSE IF cs[k].t_start <= t /\ t < cs[k].t_end THEN cs[k].label
    ELSE ScanAll(cs, k + 1, t)

----------------------------------------------------------------------------
(***************************************************************************)
(* Claims about the session status.                                        *)
(***************************************************************************)
\* SessionStatus (models.py) and its order of progress
StatusRank ==
    [created |-> 0, uploading |-> 1, preprocessing |-> 2, analyzing |-> 3,
     aligning |-> 4, completed |-> 5, completed_partial |-> 5, failed |-> 5]
StatusEnum == DOMAIN StatusRank
Terminal == {"completed", "completed_partial", "failed"}
\* from status a the session may go on to status b
MayFollow(a, b) ==
    \/ a = b
    \/ a \notin Terminal /\ StatusRank[a] < StatusRank[b]
\* a log of [session_id, status] entries keeps to the status graph
KeepsToGraph(log) ==
    /\ \A i \in 1..Len(log) : log[i].status \in StatusEnum
    /\ \A i, j \in 1..Len(log) :
          (i < j /\ log[i].session_id = log[j].session_id)
             => MayFollow(log[i].status, log[j].status)

\* C7: the statuses published for a session, and those written to its record,
\* are statuses of the enumeration, never go back in the order created,
\* uploading, preprocessing, analyzing, aligning, terminal, and none differs
\* from a terminal status published before it.
C7_StatusGraph == KeepsToGraph(statusLog) /\ KeepsToGraph(recordLog)

\* C8: a session that is 'completed', on the status log or in its record, has
\* an 'analyzing' or 'aligning' entry on the status log before that.
C8_CompletedAfterAnalyzing ==
    \A s \in Sessions :
        LET analyzed(n) == \E i \in 1..n :
                /\ statusLog[i].session_id = s
                /\ statusLog[i].status \in {"analyzing", "aligning"}
        IN /\ \A j \in 1..Len(statusLog) :
                 (statusLog[j].session_id = s /\ statusLog[j].status = "completed")
                    => analyzed(j - 1)
           /\ dbStatus[s] = "completed" => analyzed(Len(statusLog))
====
